---- MODULE Spec2Model ----
(***************************************************************************)
(* Verification model of file-browser: the tmux pane lifecycle controller  *)
(* (terminal.ts), the control channel (ipc.ts), the command line entry     *)
(* (cli.ts) and the view's refresh machinery (components/FileTree.tsx).    *)
(***************************************************************************)
EXTENDS Integers, Sequences, FiniteSets, TLC

(***************************************************************************)
(* Bounds of the pane lifecycle model.                                     *)
(***************************************************************************)
\* browser panes the multiplexer can create in one run
MaxPanes == 2
\* controller invocations started in one run
MaxRuns == 3

\* the panes controller commands are issued from (tmux ids %1, %2)
Origins == {1, 2}
\* controller processes that can run at the same time
Procs == {"A", "B"}

FirstBrowserPane == Cardinality(Origins) + 1
BrowserPanes == FirstBrowserPane..(FirstBrowserPane + MaxPanes - 1)

\* tmux prints a pane id as "%" followed by its number
Digit == <<"1", "2", "3", "4", "5", "6", "7", "8", "9">>
PaneIdOf(n) == <<"%", Digit[n]>>
Alnum == {Digit[i] : i \in 1..9} \cup {"a", "b"}

\* null and the empty string are both falsy in the controller's tests
Null == <<>>
NoPath == <<>>

\* exit status of a tmux subprocess: exit 0, exit non-zero, failed to start
Outcomes == {"ok", "fail", "enoent"}

----------------------------------------------------------------------------
(***************************************************************************)
(* terminal.ts: identity file helpers                                      *)
(***************************************************************************)
\* sourcePaneId.replace(/[^a-zA-Z0-9]/g, "")
Sanitize(s) == SelectSeq(s, LAMBDA ch : ch \in Alnum)

\* a single well-known path for every session
getPaneIdFile_shared(sourcePaneId) == <<"/tmp/file-browser-pane-">>

getPaneIdFile(sourcePaneId) == <<"/tmp/file-browser-pane-">> \o Sanitize(sourcePaneId)

\* what getCurrentPaneId can resolve to: a pane id, or "" when tmux prints nothing
SourceIds == {Null} \cup {PaneIdOf(o) : o \in Origins}
AllPaths == {getPaneIdFile(s) : s \in SourceIds} \cup {getPaneIdFile_shared(Null)}

VARIABLES
    alive,      \* browser panes that exist in the multiplexer
    owner,      \* browser pane -> originating pane it was spawned for (0: not created)
    nextPane,   \* number tmux gives to the next pane it creates
    idFile,     \* path -> contents of the identity file (Null: no file)
    writer,     \* path -> sourcePaneId under which the record was saved
    proc,       \* controller process -> its position and locals
    runs,       \* controller invocations started so far
    launch      \* browser pane -> words of the command line run in it

paneVars == <<alive, owner, nextPane, idFile, writer, proc, runs, launch>>

Idle ==
    [pc |-> "idle", op |-> "none", origin |-> 0, tmux |-> FALSE,
     src |-> Null, file |-> NoPath, paneId |-> Null, probed |-> {},
     spawned |-> 0, kills |-> 0, reused |-> 0, reported |-> 0, wrote |-> 0,
     exitCode |-> -1, clean |-> TRUE, start |-> "none", stale |-> FALSE,
     created |-> Null, result |-> Null]

\* existsSync + readFileSync(...).trim(); a missing file reads as null
readPaneId(paneIdFile) == idFile[paneIdFile]

\* unlinkSync when the file exists
clearPaneId(files, paneIdFile) == [files EXCEPT ![paneIdFile] = Null]

\* nothing is written
savePaneId_skip(files, paneIdFile, id) == files

\* writeFileSync(paneIdFile, id)
savePaneId(files, paneIdFile, id) == [files EXCEPT ![paneIdFile] = id]

\* tmux display-message -t paneId: resolves true only on exit code 0
paneExists(paneId, out) == out = "ok" /\ \E n \in alive : PaneIdOf(n) = paneId

\* process.env.TMUX of the controller process
detectTmux(r) == r.tmux

\* tmux display-message -p '#{pane_id}': the trimmed output, "" when none
getCurrentPaneId(r, out) == IF out = "ok" THEN PaneIdOf(r.origin) ELSE Null

\* PaneActive: identity file present and the pane it names exists
PaneActive(o) ==
    LET f == getPaneIdFile(PaneIdOf(o))
    IN  idFile[f] # Null /\ \E n \in alive : PaneIdOf(n) = idFile[f]

\* process.cwd() of the controller invocation
WorkDir == <<"/w">>
\* no command line was run in the pane
NoArgs == <<>>

\* `bun run ${cliPath} show --cwd '${cwd}'${paneArg}`: the words after the
\* script; paneArg is there only when a browserPaneId was passed
buildShowCommand(cwd, browserPaneId) ==
    <<<<"show">>, <<"--cwd">>, cwd>>
    \o (IF browserPaneId # Null THEN <<<<"--pane-id">>, browserPaneId>> ELSE <<>>)

\* cli.ts getArg(name): the word after --name, undefined when there is none
getArg(args, name) ==
    LET at == {i \in 1..Len(args) : args[i] = name}
        idx == CHOOSE i \in at : \A j \in at : i <= j
    IN  IF at # {} /\ idx < Len(args) THEN args[idx + 1] ELSE Null

\* cli.ts case "show": the props renderFileTree mounts FileTreeApp with
show(args) ==
    [cwd |-> IF getArg(args, <<"--cwd">>) # Null THEN getArg(args, <<"--cwd">>)
             ELSE WorkDir,
     socketPath |-> getArg(args, <<"--socket">>),
     paneId |-> getArg(args, <<"--pane-id">>)]

\* FileTreeApp IPC effect: if (!socketPath) return; else createIPCServer
hostsServer(props) == props.socketPath # Null

----------------------------------------------------------------------------
(***************************************************************************)
(* Bookkeeping shared by the controller steps                              *)
(***************************************************************************)
\* process p moves to record r; every other invocation has been interleaved with
Step(p, r) ==
    [q \in Procs |-> IF q = p THEN r ELSE [proc[q] EXCEPT !.clean = FALSE]]

Failed(r, out) == IF out = "ok" THEN r ELSE [r EXCEPT !.clean = FALSE]

\* an 'error' event of a child process nobody listens to: uncaught exception
Crash(r) == [r EXCEPT !.pc = "crashed", !.exitCode = 1, !.clean = FALSE]

\* main() returned: the process exits with status 0
Done(r) == [r EXCEPT !.pc = "done", !.exitCode = 0]

\* entry of spawnBrowser up to its first await
spawnBrowserEntry(r) ==
    IF ~detectTmux(r)
    THEN Done([r EXCEPT !.reported = @ + 1])
    ELSE [r EXCEPT !.pc = "s_query", !.probed = {}]

\* entry of closeBrowser up to its first await
closeBrowserEntry(r) == [r EXCEPT !.pc = "c_query", !.probed = {}]

----------------------------------------------------------------------------
(***************************************************************************)
(* cli.ts main(): a controller process is started from pane o with command *)
(* toggle or close; its first act is the current-pane query.               *)
(***************************************************************************)
main(p, o, cmd, env) ==
    /\ proc[p].pc \in {"idle", "done", "crashed"}
    /\ runs < MaxRuns
    /\ runs' = runs + 1
    /\ LET r == [Idle EXCEPT
                    !.op = cmd, !.origin = o, !.tmux = env,
                    !.pc = IF cmd = "toggle" THEN "t_query" ELSE "c_query",
                    !.start = IF PaneActive(o) THEN "PaneActive" ELSE "NoPane",
                    !.clean = \A q \in Procs \ {p} :
                                  proc[q].pc \in {"idle", "done", "crashed"}]
       IN  proc' = Step(p, r)
    /\ UNCHANGED <<alive, owner, nextPane, idFile, writer>>
    /\ UNCHANGED launch

(***************************************************************************)
(* toggleBrowser                                                           *)
(***************************************************************************)
\* else branch of toggleBrowser: clearPaneId, then spawnBrowser
toggleElse(p, r) ==
    /\ idFile' = clearPaneId(idFile, r.file)
    /\ writer' = [writer EXCEPT ![r.file] = Null]
    /\ proc' = Step(p, spawnBrowserEntry(r))

\* getCurrentPaneId resolved; readPaneId; start of the probe when a record exists
toggleBrowser_query(p, out) ==
    /\ proc[p].pc = "t_query"
    /\ IF out = "enoent"
       THEN /\ proc' = Step(p, Crash(proc[p]))
            /\ UNCHANGED <<idFile, writer>>
       ELSE LET src  == getCurrentPaneId(proc[p], out)
                file == getPaneIdFile(src)
                r    == Failed([proc[p] EXCEPT !.src = src, !.file = file,
                                              !.paneId = readPaneId(file)], out)
            IN  IF r.paneId # Null
                THEN /\ proc' = Step(p, [r EXCEPT !.pc = "t_probe"])
                     /\ UNCHANGED <<idFile, writer>>
                ELSE toggleElse(p, r)
    /\ UNCHANGED <<alive, owner, nextPane, runs>>
    /\ UNCHANGED launch

\* paneExists(paneId) resolved: closeBrowser when alive, else clear and spawn
toggleBrowser_probe(p, out) ==
    /\ proc[p].pc = "t_probe"
    /\ LET r == Failed(proc[p], out)
       IN  IF paneExists(r.paneId, out)
           THEN /\ proc' = Step(p, closeBrowserEntry(r))
                /\ UNCHANGED <<idFile, writer>>
           ELSE toggleElse(p, [r EXCEPT !.stale = (out = "ok")])
    /\ UNCHANGED <<alive, owner, nextPane, runs>>
    /\ UNCHANGED launch

(***************************************************************************)
(* closeBrowser                                                            *)
(***************************************************************************)
\* a record was read: it is probed before anything is sent to the pane
closeAfterRead_trust(r) == [r EXCEPT !.pc = "c_kill"]

closeAfterRead(r) == [r EXCEPT !.pc = "c_probe"]

\* the record is removed only when the pane was found alive
closeNotAlive_keep(files, r) == files

\* probe said the pane is gone: the record is cleared all the same
closeNotAlive(files, r) == clearPaneId(files, r.file)

\* kill-pane closed: the record is left behind
closeAfterKill_keep(files, r) == files

\* kill-pane closed (whatever its status): clearPaneId
closeAfterKill(files, r) == clearPaneId(files, r.file)

closeBrowser_query(p, out) ==
    /\ proc[p].pc = "c_query"
    /\ IF out = "enoent"
       THEN proc' = Step(p, Crash(proc[p]))
       ELSE LET src  == getCurrentPaneId(proc[p], out)
                file == getPaneIdFile(src)
                r    == Failed([proc[p] EXCEPT !.src = src, !.file = file,
                                              !.paneId = readPaneId(file)], out)
            IN  IF r.paneId = Null
                THEN proc' = Step(p, Done(r))
                ELSE proc' = Step(p, closeAfterRead(r))
    /\ UNCHANGED <<alive, owner, nextPane, idFile, writer, runs>>
    /\ UNCHANGED launch

closeBrowser_probe(p, out) ==
    /\ proc[p].pc = "c_probe"
    /\ LET r == Failed(proc[p], out)
       IN  IF paneExists(r.paneId, out)
           THEN /\ proc' = Step(p, [r EXCEPT !.pc = "c_kill",
                                             !.probed = @ \cup {r.paneId}])
                /\ UNCHANGED <<idFile, writer>>
           ELSE /\ idFile' = closeNotAlive(idFile, r)
                /\ writer' = [f \in AllPaths |->
                                 IF idFile'[f] = Null THEN Null ELSE writer[f]]
                /\ proc' = Step(p, Done(r))
    /\ UNCHANGED <<alive, owner, nextPane, runs>>
    /\ UNCHANGED launch

\* tmux kill-pane -t paneId closed
closeBrowser_kill(p, out) ==
    /\ proc[p].pc = "c_kill"
    /\ IF out = "enoent"
       THEN /\ proc' = Step(p, Crash(proc[p]))
            /\ UNCHANGED <<alive, idFile, writer>>
       ELSE LET r == Failed([proc[p] EXCEPT !.kills = @ + 1], out)
            IN  /\ alive' = IF out = "ok"
                            THEN {n \in alive : PaneIdOf(n) # r.paneId}
                            ELSE alive
                /\ idFile' = closeAfterKill(idFile, r)
                /\ writer' = [f \in AllPaths |->
                                 IF idFile'[f] = Null THEN Null ELSE writer[f]]
                /\ proc' = Step(p, Done(r))
    /\ UNCHANGED <<owner, nextPane, runs>>
    /\ UNCHANGED launch

(***************************************************************************)
(* spawnBrowser, reusePane, createNewPane                                  *)
(***************************************************************************)
\* getCurrentPaneId resolved inside spawnBrowser; readPaneId
spawnBrowser_query(p, out) ==
    /\ proc[p].pc = "s_query"
    /\ IF out = "enoent"
       THEN proc' = Step(p, Crash(proc[p]))
       ELSE LET src  == getCurrentPaneId(proc[p], out)
                file == getPaneIdFile(src)
                r    == Failed([proc[p] EXCEPT !.src = src, !.file = file,
                                              !.paneId = readPaneId(file)], out)
            IN  IF r.paneId # Null
                THEN proc' = Step(p, [r EXCEPT !.pc = "s_probe"])
                ELSE proc' = Step(p, [r EXCEPT !.pc = "n_split"])
    /\ UNCHANGED <<alive, owner, nextPane, idFile, writer, runs>>
    /\ UNCHANGED launch

\* paneExists(existingPaneId) resolved: reuse when alive, else createNewPane
spawnBrowser_probe(p, out) ==
    /\ proc[p].pc = "s_probe"
    /\ LET r == Failed(proc[p], out)
       IN  IF paneExists(r.paneId, out)
           THEN proc' = Step(p, [r EXCEPT !.pc = "r_ctrlc",
                                          !.probed = @ \cup {r.paneId}])
           ELSE proc' = Step(p, [r EXCEPT !.pc = "n_split"])
    /\ UNCHANGED <<alive, owner, nextPane, idFile, writer, runs>>
    /\ UNCHANGED launch

\* tmux send-keys C-c closed; the view in the pane exits on Ctrl-C (exitOnCtrlC)
\* unless an editor or pager holds the terminal, and its pane goes with it
reusePane_interrupt(p, out, exits) ==
    /\ proc[p].pc = "r_ctrlc"
    /\ IF out = "enoent"
       THEN /\ proc' = Step(p, Crash(proc[p]))
            /\ UNCHANGED alive
       ELSE /\ proc' = Step(p, Failed([proc[p] EXCEPT !.pc = "r_wait",
                                                      !.reused = @ + 1], out))
            /\ alive' = IF out = "ok" /\ exits
                        THEN {n \in alive : PaneIdOf(n) # proc[p].paneId}
                        ELSE alive
    /\ UNCHANGED <<owner, nextPane, idFile, writer, runs>>
    /\ UNCHANGED launch

\* the 150 ms settle timer fires and the relaunch command line is sent
reusePane_settle(p) ==
    /\ proc[p].pc = "r_wait"
    /\ proc' = Step(p, [proc[p] EXCEPT !.pc = "r_send"])
    /\ UNCHANGED <<alive, owner, nextPane, idFile, writer, runs>>
    /\ UNCHANGED launch

\* tmux send-keys 'clear && show' closed: spawnBrowser returns existingPaneId
reusePane_sent(p, out) ==
    /\ proc[p].pc = "r_send"
    /\ IF out = "enoent"
       THEN proc' = Step(p, Crash(proc[p]))
       ELSE proc' = Step(p, Done(Failed([proc[p] EXCEPT !.result = proc[p].paneId],
                                        out)))
    /\ launch' = IF out = "ok"
                 THEN [n \in BrowserPanes |->
                          IF n \in alive /\ PaneIdOf(n) = proc[p].paneId
                          THEN buildShowCommand(WorkDir, Null)
                          ELSE launch[n]]
                 ELSE launch
    /\ UNCHANGED <<alive, owner, nextPane, idFile, writer, runs>>

\* tmux split-window -P -F '#{pane_id}' closed
createNewPane_split(p, out) ==
    /\ proc[p].pc = "n_split"
    /\ out = "ok" => nextPane \in BrowserPanes
    /\ IF out = "enoent"
       THEN /\ proc' = Step(p, Crash(proc[p]))
            /\ UNCHANGED <<alive, owner, nextPane, idFile, writer, launch>>
       ELSE IF out = "ok"
       THEN \* code === 0 and an id was printed: savePaneId, then selectPane
            LET r == proc[p] IN
            /\ alive' = alive \cup {nextPane}
            /\ owner' = [owner EXCEPT ![nextPane] = r.origin]
            /\ nextPane' = nextPane + 1
            /\ idFile' = savePaneId(idFile, r.file, PaneIdOf(nextPane))
            /\ writer' = [writer EXCEPT ![r.file] = r.src]
            /\ launch' = [launch EXCEPT
                              ![nextPane] = buildShowCommand(WorkDir, Null)]
            /\ proc' = Step(p, [r EXCEPT !.pc = "n_select", !.spawned = @ + 1,
                                         !.wrote = @ + 1,
                                         !.created = PaneIdOf(nextPane)])
       ELSE \* resolve(null)
            /\ proc' = Step(p, Done(Failed(proc[p], out)))
            /\ UNCHANGED <<alive, owner, nextPane, idFile, writer, launch>>
    /\ UNCHANGED runs

\* tmux select-pane -t sourcePaneId closed: resolve(paneId)
createNewPane_select(p, out) ==
    /\ proc[p].pc = "n_select"
    /\ IF out = "enoent"
       THEN proc' = Step(p, Crash(proc[p]))
       ELSE proc' = Step(p, Done(Failed([proc[p] EXCEPT !.result = proc[p].created],
                                        out)))
    /\ UNCHANGED <<alive, owner, nextPane, idFile, writer, runs>>
    /\ UNCHANGED launch

(***************************************************************************)
(* The user closes a browser pane directly (exit command, quit key).       *)
(***************************************************************************)
UserClosesPane(n) ==
    /\ n \in alive
    /\ alive' = alive \ {n}
    /\ proc' = [q \in Procs |-> [proc[q] EXCEPT !.clean = FALSE]]
    /\ UNCHANGED <<owner, nextPane, idFile, writer, runs>>
    /\ UNCHANGED launch

PaneInit ==
    /\ alive = {}
    /\ owner = [n \in BrowserPanes |-> 0]
    /\ nextPane = FirstBrowserPane
    /\ idFile = [f \in AllPaths |-> Null]
    /\ writer = [f \in AllPaths |-> Null]
    /\ proc = [p \in Procs |-> Idle]
    /\ runs = 0
    /\ launch = [n \in BrowserPanes |-> NoArgs]

PaneNext ==
    \/ \E p \in Procs, o \in Origins, cmd \in {"toggle", "close"}, env \in BOOLEAN :
          main(p, o, cmd, env)
    \/ \E p \in Procs, out \in Outcomes : toggleBrowser_query(p, out)
    \/ \E p \in Procs, out \in Outcomes : toggleBrowser_probe(p, out)
    \/ \E p \in Procs, out \in Outcomes : closeBrowser_query(p, out)
    \/ \E p \in Procs, out \in Outcomes : closeBrowser_probe(p, out)
    \/ \E p \in Procs, out \in Outcomes : closeBrowser_kill(p, out)
    \/ \E p \in Procs, out \in Outcomes : spawnBrowser_query(p, out)
    \/ \E p \in Procs, out \in Outcomes : spawnBrowser_probe(p, out)
    \/ \E p \in Procs, out \in Outcomes, exits \in BOOLEAN :
          reusePane_interrupt(p, out, exits)
    \/ \E p \in Procs : reusePane_settle(p)
    \/ \E p \in Procs, out \in Outcomes : reusePane_sent(p, out)
    \/ \E p \in Procs, out \in Outcomes : createNewPane_split(p, out)
    \/ \E p \in Procs, out \in Outcomes : createNewPane_select(p, out)
    \/ \E n \in BrowserPanes : UserClosesPane(n)

----------------------------------------------------------------------------
(***************************************************************************)
(* The live view (FileTreeApp) and its control server (ipc.ts)             *)
(***************************************************************************)
\* server instances the view creates in one run (one per effect run)
MaxGen == 3
\* control messages the clients write in one run
MaxWrites == 3
\* clock ticks of 100 ms in one run
MaxTime == 8
\* change events the watcher reports in one run
MaxEvents == 4

\* setTimeout(..., 300) in debouncedRefresh, in ticks of 100 ms
DebounceTicks == 3

Clients == {"c1", "c2"}
Dirs == {"d1", "d2"}
NoDir == "none"

\* one JSON object per line; its type tag (setCwd carries the new cwd)
Tags == {"p", "r", "s1", "s2"}
\* BrowserMessage tags: pong
ReplyTags == {"o"}
DirOfTag(t) == IF t = "s1" THEN "d1" ELSE "d2"

\* JSON.stringify(msg) + "\n"
Encode(t) == <<"{", t, "}", "\n">>

\* lines a client can also write: a JSON object whose type is none of the
\* cases of onMessage (a pong), and a line that is not JSON
Junk == {"o", "z"}
Wire(t) == IF t = "z" THEN <<"z", "\n">> ELSE Encode(t)

\* JSON.parse(line): the tag of a complete object, "error" when it throws
JSONparse(line) ==
    IF Len(line) = 3 /\ line[1] = "{" /\ line[3] = "}" /\ line[2] \in Tags \cup ReplyTags
    THEN line[2]
    ELSE "error"

\* data.toString().split("\n")
RECURSIVE SplitLines(_, _)
SplitLines(s, cur) ==
    IF s = <<>> THEN <<cur>>
    ELSE IF Head(s) = "\n" THEN <<cur>> \o SplitLines(Tail(s), <<>>)
    ELSE SplitLines(Tail(s), Append(cur, Head(s)))

split(s) == SplitLines(s, <<>>)

\* the lines the data handler hands to onMessage: non-blank and parseable
RECURSIVE Parsed(_)
Parsed(lines) ==
    IF lines = <<>> THEN <<>>
    ELSE IF Head(lines) # <<>> /\ JSONparse(Head(lines)) # "error"
         THEN <<JSONparse(Head(lines))>> \o Parsed(Tail(lines))
         ELSE Parsed(Tail(lines))

\* a line that does not parse ends the handling of the read
dataLines_untilBad(chunk) ==
    LET lines == split(chunk)
        bad == {i \in 1..Len(lines) :
                   lines[i] # <<>> /\ JSONparse(lines[i]) = "error"}
        stop == IF bad = {} THEN Len(lines)
                ELSE (CHOOSE i \in bad : \A j \in bad : i <= j) - 1
    IN  Parsed(SubSeq(lines, 1, stop))

\* data(_socket, data): every segment of this read is parsed on its own
dataLines(chunk) == Parsed(split(chunk))

VARIABLES
    cwd,        \* useState cwd
    viewMode,   \* useState viewMode
    deps,       \* [cwd, mode] the mounted effects were run with
    shown,      \* [cwd, mode] the displayed tree was last built from
    watching,   \* directory the FSWatcher observes
    timers,     \* pending debounce timers: [due, dir, mode, ref]
    now,        \* clock, in ticks of 100 ms
    lastEvent,  \* time of the last change event of this watcher (-1: none yet)
    events,     \* change events reported so far
    bursts,     \* bursts of change events started
    debounced,  \* rebuilds made by the debounce timer
    cancelled,  \* debounce timers cleared by an effect cleanup
    lastGap,    \* at the last debounced rebuild: time since the last event
    gen,        \* serverRef.current: the server instance of the last effect run
    genDeps,    \* server instance -> [cwd, mode] captured by its onMessage
    conn,       \* client -> server instance that accepted its socket (0: none)
    sent,       \* client -> bytes written and not yet read by the server
    bytes,      \* client -> bytes the server has read from it
    log,        \* client -> messages its connection handed to onMessage
    recv,       \* client -> reply lines delivered to it
    written     \* messages written by the clients so far

viewVars == <<cwd, viewMode, deps, shown, watching, timers, now, lastEvent,
              events, bursts, debounced, cancelled, lastGap>>
ipcVars == <<gen, genDeps, conn, sent, bytes, log, recv, written>>

VARIABLES
    exitBy,     \* how the view process ended ("none": it runs)
    listening,  \* server instances that accept connections
    sockFile,   \* the socket file: the server instance whose bind made it, if any
    closes      \* server instance -> close() calls made on it

sockVars == <<exitBy, listening, sockFile, closes>>

VARIABLES
    handoff,    \* the view is inside spawnSync: an external program has the terminal
    resumed     \* events, debounced rebuilds and pending timers at the last return

handVars == <<handoff, resumed>>

NoFile == {}
Running == exitBy = "none"

\* spawn: the call returns at once and the event loop goes on
Blocked_never == FALSE

\* spawnSync does not return before the program has exited: until then the
\* event loop runs no callback (watcher, timer, stdin, socket, render)
Blocked == handoff

\* if (existsSync(socketPath)) { try { unlinkSync(socketPath) } catch {} }
unlinkIfPresent(f) == IF f # NoFile THEN NoFile ELSE f

\* the file is left where it is
IPCServer_close_keepFile(s, g) == [s EXCEPT !.listening = @ \ {g}]

\* IPCServer.close(): server.stop(), then the socket file is removed
IPCServer_close(s, g) ==
    [listening |-> s.listening \ {g}, sockFile |-> unlinkIfPresent(s.sockFile)]

\* Bun.listen({ unix: socketPath }): binds the path and makes the socket file;
\* it throws (address in use) when a file is at the path
listen(s, g) ==
    IF s.sockFile = NoFile
    THEN [listening |-> s.listening \cup {g}, sockFile |-> {g}]
    ELSE s

\* a file found at the path is left there
createIPCServer_keepStale(s, g) == listen(s, g)

\* createIPCServer: a file left at the path is removed, Bun.listen binds it
createIPCServer(s, g) ==
    listen([s EXCEPT !.sockFile = unlinkIfPresent(@)], g)

\* refreshTree(dir, mode): the displayed tree is replaced by a build of dir
refreshTree(dir, mode) == [cwd |-> dir, mode |-> mode]

\* the timer is left to run
clearDebounce_none(ts) == ts

\* clearTimeout(debounceRef.current)
clearDebounce(ts) == SelectSeq(ts, LAMBDA t : ~t.ref)

\* the previous timer is left to run
debouncedRefresh_keep(ts, dir, mode) ==
    Append([i \in 1..Len(ts) |-> [ts[i] EXCEPT !.ref = FALSE]],
           [due |-> now + DebounceTicks, dir |-> dir, mode |-> mode, ref |-> TRUE])

\* debouncedRefresh(dir): clear the pending timer, arm a new one for 300 ms
debouncedRefresh(ts, dir, mode) ==
    Append(clearDebounce(ts),
           [due |-> now + DebounceTicks, dir |-> dir, mode |-> mode, ref |-> TRUE])

TimerDue == \E i \in 1..Len(timers) : timers[i].due <= now
RenderPending == deps # [cwd |-> cwd, mode |-> viewMode]

\* fs.watch callback: a change event under the watched root
watchEvent ==
    /\ watching # NoDir
    /\ ~TimerDue
    /\ events < MaxEvents
    /\ events' = events + 1
    /\ timers' = debouncedRefresh(timers, deps.cwd, deps.mode)
    /\ bursts' = IF lastEvent = -1 \/ now - lastEvent >= DebounceTicks
                 THEN bursts + 1 ELSE bursts
    /\ lastEvent' = now
    /\ UNCHANGED <<cwd, viewMode, deps, shown, watching, now, debounced,
                   cancelled, lastGap>>

\* the debounce timer lapses: refreshTree(dir) of the closure that armed it
debounceFire(i) ==
    /\ i \in 1..Len(timers)
    /\ timers[i].due <= now
    /\ shown' = refreshTree(timers[i].dir, timers[i].mode)
    /\ timers' = SubSeq(timers, 1, i - 1) \o SubSeq(timers, i + 1, Len(timers))
    /\ debounced' = debounced + 1
    /\ lastGap' = now - lastEvent
    /\ UNCHANGED <<cwd, viewMode, deps, watching, now, lastEvent, events, bursts,
                   cancelled>>

\* 100 ms pass; a due timer or a scheduled render runs first, unless the
\* event loop is blocked
Tick ==
    /\ now < MaxTime
    /\ Blocked \/ (~TimerDue /\ ~RenderPending)
    /\ now' = now + 1
    /\ UNCHANGED <<cwd, viewMode, deps, shown, watching, timers, lastEvent,
                   events, bursts, debounced, cancelled, lastGap>>

\* setInterval(() => refreshTree(cwd), 2000) of a mount whose watch() threw:
\* the interval of the mounted effect is the only one not cleared, and no
\* change event arrives
pollTick ==
    /\ ~RenderPending
    /\ events = 0
    /\ shown' = refreshTree(deps.cwd, deps.mode)
    /\ UNCHANGED <<cwd, viewMode, deps, watching, timers, now, lastEvent,
                   events, bursts, debounced, cancelled, lastGap>>

\* clients in the set of the server instance serverRef.current
clientsOf(g) == {c \in Clients : conn[c] = g}

\* broadcast(msg): one line written to every client of this server's set
broadcast(rc, g, msg) ==
    [c \in Clients |-> IF c \in clientsOf(g) THEN Append(rc[c], msg) ELSE rc[c]]

\* createIPCServer(...).then: the promise of the async function is settled when
\* the effect returns, and its callback runs before the event loop accepts a
\* connection: server.broadcast({ type: "ready" }) goes to the clients set of
\* the instance just made
thenReady(rc, g) == broadcast(rc, g, "ready")

\* useInput "g": setViewMode(next); refreshTree(cwd, next, true)
keyG ==
    /\ ~RenderPending
    /\ gen < MaxGen
    /\ LET next == IF viewMode = "all" THEN "git" ELSE "all"
       IN  /\ viewMode' = next
           /\ shown' = refreshTree(cwd, next)
    /\ UNCHANGED <<cwd, deps, watching, timers, now, lastEvent, events, bursts,
                   debounced, cancelled, lastGap>>

\* a render with changed cwd or refreshTree: the cleanups of the watch and IPC
\* effects run (watcher.close, clearTimeout, server.close), then the effects
\* (refreshTree(cwd), watch(cwd), createIPCServer)
commitEffects ==
    /\ RenderPending
    /\ gen < MaxGen
    /\ timers' = clearDebounce(timers)
    /\ cancelled' = cancelled + (Len(timers) - Len(clearDebounce(timers)))
    /\ shown' = refreshTree(cwd, viewMode)
    /\ watching' = cwd
    /\ deps' = [cwd |-> cwd, mode |-> viewMode]
    /\ gen' = gen + 1
    /\ genDeps' = [genDeps EXCEPT ![gen + 1] = [cwd |-> cwd, mode |-> viewMode]]
    /\ lastEvent' = -1
    /\ LET s == createIPCServer(IPCServer_close([listening |-> listening,
                                                  sockFile |-> sockFile], gen),
                                gen + 1)
       IN  /\ listening' = s.listening
           /\ sockFile' = s.sockFile
    /\ closes' = [closes EXCEPT ![gen] = @ + 1]
    /\ recv' = thenReady(recv, gen + 1)
    /\ UNCHANGED <<cwd, viewMode, now, events, bursts, debounced, lastGap,
                   conn, sent, bytes, log, written, exitBy>>

(***************************************************************************)
(* Control server: connections, reads and dispatch                         *)
(***************************************************************************)
\* onMessage of the server instance g, applied to the view state st
onMessage(g, tag, st) ==
    IF tag = "p"
    THEN \* serverRef.current?.broadcast({ type: "pong" })
         [st EXCEPT !.recv = broadcast(st.recv, gen, "pong")]
    ELSE IF tag = "r"
    THEN \* refreshTree(cwd) of the closure
         [st EXCEPT !.shown = refreshTree(genDeps[g].cwd, genDeps[g].mode)]
    ELSE IF tag \in {"s1", "s2"}
    THEN \* setCwd: if (mounted) setCwd(msg.cwd)
         IF g = gen THEN [st EXCEPT !.cwd = DirOfTag(tag)] ELSE st
    ELSE \* no case of the switch
         st

RECURSIVE dispatch(_, _, _)
dispatch(g, tags, st) ==
    IF tags = <<>> THEN st
    ELSE dispatch(g, Tail(tags), onMessage(g, Head(tags), st))

\* Bun.connect resolves: the listening server's open handler adds the socket
clientConnect(c) ==
    /\ conn[c] = 0
    /\ bytes[c] = <<>> /\ sent[c] = <<>>
    /\ conn' = [conn EXCEPT ![c] = gen]
    /\ UNCHANGED <<gen, genDeps, sent, bytes, log, recv, written>>

\* socket.write(JSON.stringify(msg) + "\n")
clientWrite(c, tag) ==
    /\ conn[c] # 0
    /\ written < MaxWrites
    /\ written' = written + 1
    /\ sent' = [sent EXCEPT ![c] = @ \o Wire(tag)]
    /\ UNCHANGED <<gen, genDeps, conn, bytes, log, recv>>

\* the client's process ends: close handler deletes the socket from the set
clientClose(c) ==
    /\ conn[c] # 0
    /\ sent[c] = <<>> /\ bytes[c] # <<>>
    /\ conn' = [conn EXCEPT ![c] = 0]
    /\ UNCHANGED <<gen, genDeps, sent, bytes, log, recv, written>>

\* data handler of the server that accepted c, for a read of the first k bytes
serverData(c, k) ==
    /\ conn[c] # 0
    /\ k \in 1..Len(sent[c])
    /\ LET chunk == SubSeq(sent[c], 1, k)
           tags  == dataLines(chunk)
           st    == dispatch(conn[c], tags,
                             [recv |-> recv, shown |-> shown, cwd |-> cwd])
       IN  /\ sent' = [sent EXCEPT ![c] = SubSeq(@, k + 1, Len(@))]
           /\ bytes' = [bytes EXCEPT ![c] = @ \o chunk]
           /\ log' = [log EXCEPT ![c] = @ \o tags]
           /\ recv' = st.recv
           /\ shown' = st.shown
           /\ cwd' = st.cwd
    /\ UNCHANGED <<gen, genDeps, conn, written>>
    /\ UNCHANGED <<viewMode, deps, watching, timers, now, lastEvent, events,
                   bursts, debounced, cancelled, lastGap>>

\* a whole line of a client of the mounted server: its onMessage runs
controlMessage(tag) ==
    /\ Running
    /\ tag \in {"s1", "s2"} => gen < MaxGen
    /\ LET st == onMessage(gen, tag, [recv |-> recv, shown |-> shown, cwd |-> cwd])
       IN  /\ recv' = st.recv
           /\ shown' = st.shown
           /\ cwd' = st.cwd
    /\ UNCHANGED <<viewMode, deps, watching, timers, now, lastEvent, events,
                   bursts, debounced, cancelled, lastGap>>
    /\ UNCHANGED <<gen, genDeps, conn, sent, bytes, log, written>>

(***************************************************************************)
(* Process exit                                                            *)
(***************************************************************************)
\* Ink exit(): the app unmounts and the effect cleanups run: watcher.close(),
\* clearTimeout(debounceRef.current), serverRef.current.close()
unmount(by) ==
    /\ Running
    /\ exitBy' = by
    /\ watching' = NoDir
    /\ timers' = clearDebounce(timers)
    /\ cancelled' = cancelled + (Len(timers) - Len(clearDebounce(timers)))
    /\ LET s == IPCServer_close([listening |-> listening, sockFile |-> sockFile],
                                gen)
       IN  /\ listening' = s.listening
           /\ sockFile' = s.sockFile
    /\ closes' = [closes EXCEPT ![gen] = @ + 1]
    /\ UNCHANGED <<cwd, viewMode, deps, shown, now, lastEvent, events, bursts,
                   debounced, lastGap>>

\* useInput "q": exit()
keyQ == unmount("q")

\* onMessage case "close": exit()
closeMessage == unmount("close")

\* process.on("SIGINT"): process.exit() on the spot. Whether the renderer's
\* exit hook gets the effect cleanups run before the process is gone is the
\* library's business: both outcomes are possible. Without them the process
\* takes its watcher, timers and listening sockets with it; the socket file
\* is a file and stays.
sigint(hooked) ==
    IF hooked THEN unmount("sigint")
    ELSE /\ Running
         /\ exitBy' = "sigint"
         /\ watching' = NoDir
         /\ timers' = <<>>
         /\ cancelled' = cancelled + Len(timers)
         /\ listening' = {}
         /\ UNCHANGED <<sockFile, closes>>
         /\ UNCHANGED <<cwd, viewMode, deps, shown, now, lastEvent, events,
                        bursts, debounced, lastGap>>

\* useInput return key on a file row: openFile, openInTerminal: the cursor is
\* shown, raw mode is left and spawnSync starts the editor or the diff pager
keyReturn ==
    /\ Running /\ ~handoff
    /\ ~RenderPending
    /\ handoff' = TRUE
    /\ UNCHANGED resumed

\* the program exits and spawnSync returns: raw mode again, the screen is
\* cleared, onDone: setTick
spawnSyncReturns ==
    /\ handoff
    /\ handoff' = FALSE
    /\ resumed' = [events |-> events, debounced |-> debounced,
                   pending |-> Len(timers)]

HandInit ==
    /\ handoff = FALSE
    /\ resumed = [events |-> -1, debounced |-> -1, pending |-> -1]

\* renderFileTree in a new process, with the socket path of the one that has
\* exited: the app mounts on dir and its effects run (refreshTree, watch,
\* createIPCServer and its Ready)
relaunch(dir) ==
    /\ ~Running
    /\ gen < MaxGen
    /\ exitBy' = "none"
    /\ cwd' = dir /\ viewMode' = "all"
    /\ deps' = [cwd |-> dir, mode |-> "all"]
    /\ shown' = refreshTree(dir, "all")
    /\ watching' = dir
    /\ lastEvent' = -1
    /\ gen' = gen + 1
    /\ genDeps' = [genDeps EXCEPT ![gen + 1] = [cwd |-> dir, mode |-> "all"]]
    /\ LET s == createIPCServer([listening |-> listening, sockFile |-> sockFile],
                                gen + 1)
       IN  /\ listening' = s.listening
           /\ sockFile' = s.sockFile
    /\ recv' = thenReady(recv, gen + 1)
    /\ UNCHANGED <<timers, now, events, bursts, debounced, cancelled, lastGap,
                   closes, conn, sent, bytes, log, written>>

(***************************************************************************)
(* ipc.ts createIPCServer and close(), called by an arbitrary caller       *)
(***************************************************************************)
\* calls of close() made on one server instance
MaxCloses == 3

\* await createIPCServer({ socketPath, ... })
callCreate ==
    /\ gen < MaxGen
    /\ gen' = gen + 1
    /\ LET s == createIPCServer([listening |-> listening, sockFile |-> sockFile],
                                gen + 1)
       IN  /\ listening' = s.listening
           /\ sockFile' = s.sockFile
    /\ UNCHANGED <<exitBy, closes, genDeps, conn, sent, bytes, log, recv, written>>

\* server.close() on an instance obtained earlier
callClose(g) ==
    /\ g \in 1..gen
    /\ closes[g] < MaxCloses
    /\ closes' = [closes EXCEPT ![g] = @ + 1]
    /\ LET s == IPCServer_close([listening |-> listening, sockFile |-> sockFile], g)
       IN  /\ listening' = s.listening
           /\ sockFile' = s.sockFile
    /\ UNCHANGED <<exitBy, gen, genDeps, conn, sent, bytes, log, recv, written>>

SockInit ==
    /\ exitBy = "none"
    /\ listening = {1}
    /\ sockFile = {1}
    /\ closes = [g \in 1..(MaxGen + 1) |-> 0]

ViewInit ==
    /\ cwd = "d1" /\ viewMode = "all"
    /\ deps = [cwd |-> "d1", mode |-> "all"]
    /\ shown = refreshTree("d1", "all")
    /\ watching = "d1"
    /\ timers = <<>>
    /\ now = 0 /\ lastEvent = -1 /\ events = 0
    /\ bursts = 0 /\ debounced = 0 /\ cancelled = 0 /\ lastGap = -1

IpcInit ==
    /\ gen = 1
    /\ genDeps = [g \in 1..(MaxGen + 1) |-> [cwd |-> "d1", mode |-> "all"]]
    /\ conn = [c \in Clients |-> 0]
    /\ sent = [c \in Clients |-> <<>>]
    /\ bytes = [c \in Clients |-> <<>>]
    /\ log = [c \in Clients |-> <<>>]
    /\ recv = [c \in Clients |-> <<>>]
    /\ written = 0

----------------------------------------------------------------------------
(***************************************************************************)
(* tree.ts: the tree builder, and flattenTree of FileTree.tsx              *)
(***************************************************************************)
\* entries of the directory tree the build reads
MaxFiles == 6

\* maxDepth and maxEntries passed as options, besides the defaults
DepthOpt == 1
EntriesOpt == 3

\* const { maxDepth = 4, maxEntries = 200, ... } = options
DefaultMaxDepth == 4
DefaultMaxEntries == 200

DEFAULT_IGNORE == {".git", "node_modules", ".DS_Store", "__pycache__", ".claude"}

\* file names; "a -> d" is what is left of "a -> d/B" when it is cut at "/"
Names == {".DS_Store", ".claude", ".git", "B", "a", "a -> d", "d", "k"}

\* position of a name in the collation order String.localeCompare uses:
\* punctuation before letters, letters alphabetically whatever their case
localeRank(n) ==
    CASE n = ".claude"   -> 1
      [] n = ".DS_Store" -> 2
      [] n = ".git"      -> 3
      [] n = "a"         -> 4
      [] n = "a -> d"    -> 5
      [] n = "B"         -> 6
      [] n = "d"         -> 7
      [] n = "k"         -> 8

\* position of a name in the order of its UTF-16 code units ("B" < "a")
codeUnitRank(n) ==
    CASE n = ".DS_Store" -> 1
      [] n = ".claude"   -> 2
      [] n = ".git"      -> 3
      [] n = "B"         -> 4
      [] n = "a"         -> 5
      [] n = "a -> d"    -> 6
      [] n = "d"         -> 7
      [] n = "k"         -> 8

\* a.localeCompare(b)
localeCompare(a, b) ==
    IF localeRank(a) < localeRank(b) THEN -1
    ELSE IF localeRank(a) > localeRank(b) THEN 1 ELSE 0

\* names alone decide
compareEntries_byName(a, b) == localeCompare(a.name, b.name)

\* the comparator of entries.sort and nodes.sort: directories first, then names
compareEntries(a, b) ==
    IF a.isDir # b.isDir THEN (IF a.isDir THEN -1 ELSE 1)
    ELSE localeCompare(a.name, b.name)

\* the elements of a set in some order
RECURSIVE SetToSeq(_)
SetToSeq(S) ==
    IF S = {} THEN <<>>
    ELSE LET x == CHOOSE y \in S : TRUE IN <<x>> \o SetToSeq(S \ {x})

\* Array.prototype.sort with the comparator above
sortEntries(s) == SortSeq(s, LAMBDA a, b : compareEntries(a, b) < 0)

Last(p) == p[Len(p)]
Parent(p) == SubSeq(p, 1, Len(p) - 1)
IsPrefix(p, q) == Len(p) <= Len(q) /\ SubSeq(q, 1, Len(p)) = p

\* what can be on disk under the root: path below the root, and kind
File(p) == [path |-> p, isDir |-> FALSE]
Dir(p) == [path |-> p, isDir |-> TRUE]
Universe ==
    { Dir(<<".git">>), File(<<".git", "k">>),
      File(<<"B">>), File(<<"a">>), Dir(<<"k">>), File(<<"k", "a">>),
      Dir(<<"d">>), File(<<"d", ".git">>), File(<<"d", "B">>),
      Dir(<<"d", "d">>), Dir(<<"d", "d", "d">>), Dir(<<"d", "d", "d", "d">>),
      Dir(<<"d", "d", "d", "d", "d">>), File(<<"d", "d", "d", "d", "d", "k">>) }

\* contents of the root's .gitignore (NoIgnoreFile: there is none)
NoIgnoreFile == <<"ENOENT">>
IgnoreFiles ==
    { NoIgnoreFile, <<"# c", "", "a">>, <<"d/">>, <<"!.git">>, <<"d/d">> }

\* changes git can report: path, status, and the old path of a rename
Change(p, st, old) == [path |-> p, status |-> st, from |-> old]
GitUniverse ==
    { Change(<<"B">>, "?", <<>>), Change(<<"a">>, "D", <<>>),
      Change(<<"d", "B">>, "M", <<>>), Change(<<"d", "B">>, "R", <<"a">>),
      Change(<<"d", "k", "a">>, "A", <<>>),
      Change(<<".claude", "k">>, "?", <<>>), Change(<<".DS_Store">>, "?", <<>>),
      Change(<<"a", "B">>, "?", <<>>) }

VARIABLES
    world,      \* what the build reads: the directory tree, the options, git
    stage,      \* "input", "built", "flat"
    build,      \* [raised, forest]: outcome of the build
    flat,       \* flattenTree(forest)
    cursor      \* useState cursor: index of the selected entry of flat

treeVars == <<world, stage, build, flat, cursor>>

\* parseGitignore: lines of the file, blank lines and comments dropped
parseGitignore(w) ==
    IF w.ignoreFile = NoIgnoreFile THEN <<>>
    ELSE SelectSeq(w.ignoreFile, LAMBDA line : line # "" /\ line # "# c")

\* new Bun.Glob(p).match(text) for the patterns above; text is a path cut at
\* "/", with or without a trailing "/"
Glob_match(p, segs, slash) ==
    CASE p = "a"     -> segs = <<"a">> /\ ~slash
      [] p = "d/"    -> segs = <<"d">> /\ slash
      [] p = "!.git" -> ~(segs = <<".git">> /\ ~slash)
      [] p = "d/d"   -> segs = <<"d", "d">> /\ ~slash

\* only the ignore file decides
shouldIgnore_globs(name, relPath, isDir, ignorePatterns, gitignoreGlobs) ==
    \E i \in 1..Len(gitignoreGlobs) :
        \/ Glob_match(gitignoreGlobs[i], relPath, isDir)
        \/ Glob_match(gitignoreGlobs[i], <<name>>, FALSE)
        \/ isDir /\ Glob_match(gitignoreGlobs[i], <<name>>, TRUE)

\* shouldIgnore: the name is in ignorePatterns, or a glob of the ignore file
\* matches the path, the name, or (for a directory) the name with a slash
shouldIgnore(name, relPath, isDir, ignorePatterns, gitignoreGlobs) ==
    \/ name \in ignorePatterns
    \/ \E i \in 1..Len(gitignoreGlobs) :
          \/ Glob_match(gitignoreGlobs[i], relPath, isDir)
          \/ Glob_match(gitignoreGlobs[i], <<name>>, FALSE)
          \/ isDir /\ Glob_match(gitignoreGlobs[i], <<name>>, TRUE)

\* readdirSync(dirPath, { withFileTypes: true }): the entries in the order
\* the system hands them out, or it throws (EACCES, ENOENT)
readdirSync(w, dirPath) ==
    IF dirPath \in w.unreadable THEN [threw |-> TRUE, entries |-> <<>>]
    ELSE [threw |-> FALSE,
          entries |->
              SetToSeq({[name |-> Last(e.path), isDir |-> e.isDir, path |-> e.path] :
                          e \in {x \in w.entries : Parent(x.path) = dirPath}})]

\* the exception leaves the walk
catchReaddir_rethrow(listing) == listing

\* try { entries = readdirSync(...) } catch { return [] }
catchReaddir(listing) ==
    IF listing.threw THEN [threw |-> FALSE, entries |-> <<>>] ELSE listing

\* the cap is never reached
capReached_never(count, w) == FALSE

\* entryCount >= maxEntries
capReached(count, w) == count >= w.maxEntries

\* directories are read at any depth
tooDeep_never(depth, w) == FALSE

\* depth > maxDepth
tooDeep(depth, w) == depth > w.maxDepth

Node(name, path, isDir, children, st) ==
    [name |-> name, path |-> path, isDir |-> isDir, children |-> children,
     gitStatus |-> st]

\* walk(dirPath, depth) with the entryCount it starts from; the result carries
\* the nodes, the entryCount after it and whether an exception left it
RECURSIVE walk(_, _, _, _)
RECURSIVE walkEntries(_, _, _, _)
walk(w, dirPath, depth, count) ==
    IF tooDeep(depth, w) \/ capReached(count, w)
    THEN [nodes |-> <<>>, count |-> count, raised |-> FALSE]
    ELSE LET listing == catchReaddir(readdirSync(w, dirPath))
         IN  IF listing.threw
             THEN [nodes |-> <<>>, count |-> count, raised |-> TRUE]
             ELSE walkEntries(w, sortEntries(listing.entries), depth,
                              [nodes |-> <<>>, count |-> count, raised |-> FALSE])

\* for (const entry of entries) { ... }
walkEntries(w, entries, depth, acc) ==
    IF entries = <<>> \/ acc.raised \/ capReached(acc.count, w) THEN acc
    ELSE LET entry == Head(entries) IN
         IF shouldIgnore(entry.name, entry.path, entry.isDir, DEFAULT_IGNORE,
                         parseGitignore(w))
         THEN walkEntries(w, Tail(entries), depth, acc)
         ELSE LET sub == IF entry.isDir
                         THEN walk(w, entry.path, depth + 1, acc.count + 1)
                         ELSE [nodes |-> <<>>, count |-> acc.count + 1,
                               raised |-> FALSE]
                  node == Node(entry.name, entry.path, entry.isDir, sub.nodes,
                               "none")
              IN  walkEntries(w, Tail(entries), depth,
                              [nodes |-> Append(acc.nodes, node),
                               count |-> sub.count, raised |-> sub.raised])

\* walkTree(rootPath, options)
walkTree(w) ==
    LET r == walk(w, <<>>, 0, 0)
    IN  [raised |-> r.raised, forest |-> IF r.raised THEN <<>> ELSE r.nodes]

\* the two status letters git prints for a change
XY(st) ==
    CASE st = "?" -> <<"?", "?">>
      [] st = "M" -> <<" ", "M">>
      [] st = "A" -> <<"A", " ">>
      [] st = "D" -> <<" ", "D">>
      [] st = "R" -> <<"R", " ">>

\* a rename is printed as "old -> new": cut at "/", the last segment of old,
\* the arrow and the first segment of new are one piece
arrow(old, new) == CASE old = "a" /\ new = "d" -> "a -> d"

\* the line of git status --porcelain for a change: letters, and the text
\* after them cut at "/"
porcelain(c) ==
    [xy |-> XY(c.status),
     segs |-> IF c.from = <<>> THEN c.path
              ELSE Parent(c.from) \o <<arrow(Last(c.from), Head(c.path))>>
                   \o Tail(c.path)]

\* execSync("git status --porcelain -u", ...): the lines, or it throws
execSync(w) ==
    [threw |-> ~w.gitOk, lines |-> SetToSeq({porcelain(c) : c \in w.changes})]

\* xy.includes(ch)
includes(xy, ch) == \E i \in 1..Len(xy) : xy[i] = ch

\* getGitChanges: one entry per line; [] when the query throws
getGitChanges(w) ==
    LET out == execSync(w)
        status(xy) == IF includes(xy, "?") THEN "?"
                      ELSE IF includes(xy, "D") THEN "D"
                      ELSE IF includes(xy, "R") THEN "R"
                      ELSE IF includes(xy, "A") THEN "A" ELSE "M"
    IN  IF out.threw THEN <<>>
        ELSE [i \in 1..Len(out.lines) |->
                [relPath |-> out.lines[i].segs, status |-> status(out.lines[i].xy)]]

\* { files: [], subdirs: new Map() }
EmptyBucket == [files |-> <<>>, subdirs |-> [n \in {} |-> <<>>]]

\* the descent of buildGitTree through parts[0 .. n-2], then files.push
RECURSIVE insert(_, _, _, _)
insert(bucket, parts, i, file) ==
    IF i = Len(parts) THEN [bucket EXCEPT !.files = Append(@, file)]
    ELSE LET part == parts[i]
             sub == IF part \in DOMAIN bucket.subdirs THEN bucket.subdirs[part]
                    ELSE EmptyBucket
         IN  [bucket EXCEPT !.subdirs =
                 [n \in DOMAIN bucket.subdirs \cup {part} |->
                     IF n = part THEN insert(sub, parts, i + 1, file)
                     ELSE bucket.subdirs[n]]]

\* for (const { relPath, status } of changes) { ... }
RECURSIVE group(_, _, _)
group(changes, i, root) ==
    IF i > Len(changes) THEN root
    ELSE LET c == changes[i] IN
         IF Head(c.relPath) \in DEFAULT_IGNORE THEN group(changes, i + 1, root)
         ELSE group(changes, i + 1,
                    insert(root, c.relPath, 1,
                           [name |-> Last(c.relPath), relPath |-> c.relPath,
                            status |-> c.status]))

RECURSIVE bucketToNodes(_, _)
bucketToNodes(bucket, parentPath) ==
    LET dirs == SetToSeq(DOMAIN bucket.subdirs)
        dirNodes == [i \in 1..Len(dirs) |->
                        Node(dirs[i], parentPath \o <<dirs[i]>>, TRUE,
                             bucketToNodes(bucket.subdirs[dirs[i]],
                                           parentPath \o <<dirs[i]>>),
                             "none")]
        fileNodes == [i \in 1..Len(bucket.files) |->
                         Node(bucket.files[i].name, bucket.files[i].relPath,
                              FALSE, <<>>, bucket.files[i].status)]
    IN  sortEntries(dirNodes \o fileNodes)

\* buildGitTree(rootPath)
buildGitTree(w) ==
    LET changes == getGitChanges(w)
    IN  [raised |-> FALSE,
         forest |-> IF changes = <<>> THEN <<>>
                    ELSE bucketToNodes(group(changes, 1, EmptyBucket), <<>>)]

\* every entry gets the index of the entry after it
firstChildOf_always(node, next) == next

\* flat[myIndex].firstChildIndex = flat.length, when node.children is not empty
firstChildOf(node, next) == IF node.children # <<>> THEN next ELSE -1

\* flattenTree: walk(children, depth, prefix, parentIdx); indices count from 0
RECURSIVE flattenWalk(_, _, _, _)
flattenWalk(rows, children, depth, parentIdx) ==
    IF children = <<>> THEN rows
    ELSE LET node == Head(children)
             myIndex == Len(rows)
             pushed == Append(rows, [path |-> node.path, isDir |-> node.isDir,
                                     depth |-> depth, parentIndex |-> parentIdx,
                                     firstChildIndex |->
                                         firstChildOf(node, Len(rows) + 1)])
             below == IF node.children # <<>>
                      THEN flattenWalk(pushed, node.children, depth + 1, myIndex)
                      ELSE pushed
         IN  flattenWalk(below, Tail(children), depth, parentIdx)

\* the children of a node are not descended into
flattenTree_topLevel(nodes) ==
    [i \in 1..Len(nodes) |->
        [path |-> nodes[i].path, isDir |-> nodes[i].isDir, depth |-> 0,
         parentIndex |-> -1, firstChildIndex |-> -1]]

\* walk(nodes, 0, "", -1); return flat
flattenTree(nodes) == flattenWalk(<<>>, nodes, 0, -1)

\* the directory trees, options and ignore files a build is run on
PrefixClosed(S) == \A e \in S : Len(e.path) > 1 => Dir(Parent(e.path)) \in S
Trees == {S \in SUBSET Universe : Cardinality(S) <= MaxFiles /\ PrefixClosed(S)}
AtMostOne(S) == {{}} \cup {{x} : x \in S}

World(mode, entries, unreadable, maxDepth, maxEntries, ignoreFile, changes, gitOk) ==
    [mode |-> mode, entries |-> entries, unreadable |-> unreadable,
     maxDepth |-> maxDepth, maxEntries |-> maxEntries, ignoreFile |-> ignoreFile,
     changes |-> changes, gitOk |-> gitOk]

NoWorld == World("all", {}, {}, DefaultMaxDepth, DefaultMaxEntries, NoIgnoreFile,
                 {}, TRUE)

Worlds ==
    {World("all", S, u, md, me, NoIgnoreFile, {}, TRUE) :
        S \in Trees, u \in AtMostOne({<<"k">>, <<"d">>}),
        md \in {DepthOpt, DefaultMaxDepth}, me \in {EntriesOpt, DefaultMaxEntries}}
    \cup
    {World("all", S, {}, DefaultMaxDepth, DefaultMaxEntries, f, {}, TRUE) :
        S \in Trees, f \in IgnoreFiles}
    \cup
    {World("git", {}, {}, DefaultMaxDepth, DefaultMaxEntries, NoIgnoreFile, C, ok) :
        C \in {X \in SUBSET GitUniverse :
                 \A x, y \in X : x.path = y.path => x = y},
        ok \in BOOLEAN}

\* refreshTree in all-files mode: walkTree(dir)
build_all ==
    /\ stage = "input" /\ world.mode = "all"
    /\ build' = walkTree(world)
    /\ stage' = "built"
    /\ UNCHANGED <<world, flat, cursor>>

\* refreshTree in git-diff mode: buildGitTree(dir)
build_git ==
    /\ stage = "input" /\ world.mode = "git"
    /\ build' = buildGitTree(world)
    /\ stage' = "built"
    /\ UNCHANGED <<world, flat, cursor>>

\* useMemo(() => flattenTree(tree), [tree])
flatten ==
    /\ stage = "built" /\ ~build.raised
    /\ flat' = flattenTree(build.forest)
    /\ stage' = "flat"
    /\ UNCHANGED <<world, build, cursor>>

TreeIdle ==
    /\ stage = "input"
    /\ build = [raised |-> FALSE, forest |-> <<>>]
    /\ flat = <<>>
    /\ cursor = 0

TreeInit == world = NoWorld /\ TreeIdle

(***************************************************************************)
(* FileTree.tsx: the cursor, moved by keys and clamped by rebuilds         *)
(***************************************************************************)
\* what the root holds at the time of a rebuild: small trees and reports
CursorEntries ==
    { File(<<"B">>), File(<<"a">>), Dir(<<"k">>), File(<<"k", "a">>),
      Dir(<<"d">>), File(<<"d", "B">>) }
CursorChanges ==
    { Change(<<"B">>, "?", <<>>), Change(<<"d", "B">>, "M", <<>>),
      Change(<<"d", "k", "a">>, "A", <<>>) }
CursorWorlds ==
    {World("all", S, {}, DefaultMaxDepth, DefaultMaxEntries, NoIgnoreFile, {}, TRUE) :
        S \in {X \in SUBSET CursorEntries : PrefixClosed(X)}}
    \cup
    {World("git", {}, {}, DefaultMaxDepth, DefaultMaxEntries, NoIgnoreFile, X, TRUE) :
        X \in SUBSET CursorChanges}

Max(a, b) == IF a >= b THEN a ELSE b
Min(a, b) == IF a <= b THEN a ELSE b

\* refreshTree(dir, mode, resetCursor): setTree(newTree), and the cursor is set
\* to 0 or clamped to the new flat sequence
setTreeAndCursor(w, resetCursor) ==
    LET newTree == IF w.mode = "git" THEN buildGitTree(w) ELSE walkTree(w)
        newFlat == flattenTree(newTree.forest)
    IN  /\ world' = w
        /\ build' = newTree
        /\ flat' = newFlat
        /\ stage' = "flat"
        /\ cursor' = IF resetCursor THEN 0
                     ELSE Min(cursor, Max(0, Len(newFlat) - 1))

\* the mount effect, key "r", the debounce timer, the polling interval and a
\* Refresh message: refreshTree(cwd) on what the root holds by now
rebuild(w) ==
    /\ w.mode = world.mode
    /\ setTreeAndCursor(w, FALSE)

\* key "g": setViewMode(next); refreshTree(cwd, next, true)
toggleMode(w) ==
    /\ stage = "flat"
    /\ w.mode # world.mode
    /\ setTreeAndCursor(w, TRUE)

\* flat.length > 0 && flat[cursor]
onEntry == Len(flat) > 0 /\ cursor \in 0..(Len(flat) - 1)

\* key up or "k": setCursor((c) => Math.max(0, c - 1))
keyUp ==
    /\ stage = "flat"
    /\ cursor' = Max(0, cursor - 1)
    /\ UNCHANGED <<world, stage, build, flat>>

\* key down or "j": setCursor((c) => Math.min(flat.length - 1, c + 1))
keyDown ==
    /\ stage = "flat"
    /\ cursor' = Min(Len(flat) - 1, cursor + 1)
    /\ UNCHANGED <<world, stage, build, flat>>

\* key left or "h": to the parent entry, when there is one
keyLeft ==
    /\ stage = "flat"
    /\ cursor' = IF onEntry /\ flat[cursor + 1].parentIndex >= 0
                 THEN flat[cursor + 1].parentIndex ELSE cursor
    /\ UNCHANGED <<world, stage, build, flat>>

\* key right or "l": to the first child, when there is one
keyRight ==
    /\ stage = "flat"
    /\ cursor' = IF onEntry /\ flat[cursor + 1].firstChildIndex >= 0
                 THEN flat[cursor + 1].firstChildIndex ELSE cursor
    /\ UNCHANGED <<world, stage, build, flat>>

----------------------------------------------------------------------------
(***************************************************************************)
(* ipc.ts sendCommand: one call against an arbitrary peer                  *)
(***************************************************************************)
\* bytes a peer sends on one connection
MaxReply == 4

\* what a peer can put on the wire: pieces of a pong line, or garbage
PeerChars == {"{", "o", "}", "\n", "z"}

VARIABLES
    call        \* the promise of sendCommand, its timer, socket and buffer

cmdVars == <<call>>

\* resolve(v): only the first resolution of a promise counts
resolve(k, v) == IF k.result = "pending" THEN [k EXCEPT !.result = v] ELSE k

\* clearTimeout(timeout)
clearTimeout(k) == [k EXCEPT !.timer = FALSE]

\* for (const line of lines): clearTimeout, then resolve(JSON.parse(line))
RECURSIVE scanReply(_, _)
scanReply(k, lines) ==
    IF lines = <<>> THEN k
    ELSE IF Head(lines) = <<>> THEN scanReply(k, Tail(lines))
    ELSE IF JSONparse(Head(lines)) # "error"
         THEN resolve([clearTimeout(k) EXCEPT !.good = TRUE], JSONparse(Head(lines)))
         ELSE scanReply([clearTimeout(k) EXCEPT !.bad = TRUE], Tail(lines))

\* Bun.connect: open(socket) writes the message
sendCommand_open ==
    /\ call.sock = "connecting"
    /\ call' = [call EXCEPT !.sock = "open"]

\* Bun.connect(...).catch: nothing listens at the socket path
sendCommand_connectFailed ==
    /\ call.sock = "connecting"
    /\ call' = [resolve(clearTimeout(call), "null") EXCEPT !.sock = "failed"]

\* data(_socket, data): buffer += data; scan the lines of the whole buffer
sendCommand_data(chunk) ==
    /\ call.sock = "open"
    /\ Len(call.buffer) + Len(chunk) <= MaxReply
    /\ LET k == [call EXCEPT !.buffer = @ \o chunk]
       IN  call' = scanReply(k, split(k.buffer))

\* setTimeout(() => resolve(null), 3000) lapses
sendCommand_timeout ==
    /\ call.timer
    /\ call' = resolve(clearTimeout(call), "null")

\* close(): the peer ended the connection
sendCommand_close ==
    /\ call.sock = "open"
    /\ call' = [resolve(clearTimeout(call), "null") EXCEPT !.sock = "closed"]

\* error()
sendCommand_error ==
    /\ call.sock = "open"
    /\ call' = [resolve(clearTimeout(call), "null") EXCEPT !.sock = "errored"]

CmdInit ==
    call = [sock |-> "connecting", result |-> "pending", timer |-> TRUE,
            buffer |-> <<>>, bad |-> FALSE, good |-> FALSE]

CmdNext ==
    \/ sendCommand_open
    \/ sendCommand_connectFailed
    \/ \E n \in 1..MaxReply : \E chunk \in [1..n -> PeerChars] : sendCommand_data(chunk)
    \/ sendCommand_timeout
    \/ sendCommand_close
    \/ sendCommand_error

----------------------------------------------------------------------------
(***************************************************************************)
(* cli.ts refresh <id>: sendCommand against the view's control server      *)
(***************************************************************************)
\* the controller's connection, and another client of the same view
Controller == "c1"
Other == "c2"

\* JSON.stringify of a BrowserMessage + "\n", as IPCServer.broadcast writes it
BrowserLine(m) == CASE m = "pong" -> Encode("o")

\* lines of the view the controller's data handler has been given
linesRead == Len(SelectSeq(call.buffer, LAMBDA ch : ch = "\n"))

\* Bun.connect(getSocketPath(id)) reaches the listening server of the view:
\* the server's open handler adds the socket, the client's open handler
\* writes { type: "refresh" }
refresh_connect ==
    /\ gen \in listening
    /\ conn[Controller] = 0
    /\ sendCommand_open
    /\ conn' = [conn EXCEPT ![Controller] = gen]
    /\ sent' = [sent EXCEPT ![Controller] = @ \o Encode("r")]
    /\ UNCHANGED <<gen, genDeps, bytes, log, recv, written>>

\* no view listens at the socket path
refresh_connectFailed ==
    /\ gen \notin listening
    /\ sendCommand_connectFailed

\* the next line the view wrote to the controller's socket arrives
refresh_data ==
    /\ conn[Controller] # 0
    /\ linesRead < Len(recv[Controller])
    /\ sendCommand_data(BrowserLine(recv[Controller][linesRead + 1]))

\* the 3 s timer lapses: by then the view has read what was written to it
\* and the controller has read what the view wrote
refresh_timeout ==
    /\ call.sock = "open"
    /\ sent[Controller] = <<>>
    /\ linesRead = Len(recv[Controller])
    /\ sendCommand_timeout

\* if (!result) { console.error(...); process.exit(1) }; -1 while the call
\* is awaited, 0 when main returns
ExitStatus ==
    IF call.result = "pending" THEN -1
    ELSE IF call.result = "null" THEN 1 ELSE 0

----------------------------------------------------------------------------
(***************************************************************************)
(* Specifications                                                          *)
(***************************************************************************)
vars == <<alive, owner, nextPane, idFile, writer, proc, runs, launch,
          cwd, viewMode, deps, shown, watching, timers, now, lastEvent,
          events, bursts, debounced, cancelled, lastGap,
          gen, genDeps, conn, sent, bytes, log, recv, written, call,
          exitBy, listening, sockFile, closes, world, stage, build, flat,
          cursor, handoff, resumed>>

Init ==
    /\ PaneInit /\ ViewInit /\ IpcInit /\ CmdInit /\ SockInit /\ TreeInit
    /\ HandInit

\* the controller processes against the multiplexer and the identity files
Next == PaneNext /\ UNCHANGED <<viewVars, ipcVars, cmdVars, sockVars, treeVars, handVars>>
Spec == Init /\ [][Next]_vars

\* the view's control server and its clients
IpcNext ==
    \/ \E c \in Clients :
          clientConnect(c) /\ UNCHANGED <<viewVars, paneVars, cmdVars, sockVars, treeVars, handVars>>
    \/ \E c \in Clients, t \in Tags \cup Junk :
          clientWrite(c, t) /\ UNCHANGED <<viewVars, paneVars, cmdVars, sockVars, treeVars, handVars>>
    \/ \E c \in Clients :
          clientClose(c) /\ UNCHANGED <<viewVars, paneVars, cmdVars, sockVars, treeVars, handVars>>
    \/ \E c \in Clients, k \in 1..(4 * MaxWrites) :
          serverData(c, k) /\ UNCHANGED <<paneVars, cmdVars, sockVars, treeVars, handVars>>
    \/ commitEffects /\ UNCHANGED <<paneVars, cmdVars, treeVars, handVars>>
SpecIpc == Init /\ [][IpcNext]_vars

\* the watcher, the debounce timer and the clock
WatchNext ==
    \/ watchEvent /\ UNCHANGED <<ipcVars, paneVars, cmdVars, sockVars, treeVars, handVars>>
    \/ \E i \in 1..MaxEvents :
          debounceFire(i) /\ UNCHANGED <<ipcVars, paneVars, cmdVars, sockVars, treeVars, handVars>>
    \/ Tick /\ UNCHANGED <<ipcVars, paneVars, cmdVars, sockVars, treeVars, handVars>>
    \/ Running /\ keyG /\ UNCHANGED <<ipcVars, paneVars, cmdVars, sockVars, treeVars, handVars>>
    \/ Running /\ commitEffects /\ UNCHANGED <<paneVars, cmdVars, treeVars, handVars>>
    \/ \E t \in Tags : controlMessage(t) /\ UNCHANGED <<paneVars, cmdVars, sockVars, treeVars, handVars>>
    \/ keyQ /\ UNCHANGED <<ipcVars, paneVars, cmdVars, treeVars, handVars>>
    \/ closeMessage /\ UNCHANGED <<ipcVars, paneVars, cmdVars, treeVars, handVars>>
    \/ \E hooked \in BOOLEAN : sigint(hooked) /\ UNCHANGED <<ipcVars, paneVars, cmdVars, treeVars, handVars>>
SpecWatch == Init /\ [][WatchNext]_vars

\* the view over several processes: after an exit it is started again with
\* the same socket path
LifeNext ==
    \/ WatchNext
    \/ \E dir \in Dirs : relaunch(dir) /\ UNCHANGED <<paneVars, cmdVars, treeVars, handVars>>
SpecLife == Init /\ [][LifeNext]_vars

\* the view and the programs it hands the terminal to
HandoffNext ==
    \/ ~Blocked /\ watchEvent
          /\ UNCHANGED <<ipcVars, paneVars, cmdVars, sockVars, treeVars, handVars>>
    \/ ~Blocked /\ (\E i \in 1..MaxEvents : debounceFire(i))
          /\ UNCHANGED <<ipcVars, paneVars, cmdVars, sockVars, treeVars, handVars>>
    \/ Tick /\ UNCHANGED <<ipcVars, paneVars, cmdVars, sockVars, treeVars, handVars>>
    \/ ~Blocked /\ Running /\ keyG
          /\ UNCHANGED <<ipcVars, paneVars, cmdVars, sockVars, treeVars, handVars>>
    \/ ~Blocked /\ Running /\ commitEffects
          /\ UNCHANGED <<paneVars, cmdVars, treeVars, handVars>>
    \/ ~Blocked /\ (\E t \in Tags : controlMessage(t))
          /\ UNCHANGED <<paneVars, cmdVars, sockVars, treeVars, handVars>>
    \/ ~Blocked /\ keyQ /\ UNCHANGED <<ipcVars, paneVars, cmdVars, treeVars, handVars>>
    \/ keyReturn
          /\ UNCHANGED <<viewVars, ipcVars, paneVars, cmdVars, sockVars, treeVars>>
    \/ spawnSyncReturns
          /\ UNCHANGED <<viewVars, ipcVars, paneVars, cmdVars, sockVars, treeVars>>
SpecHandoff == Init /\ [][HandoffNext]_vars

\* one sendCommand call; the timer is a live timer of the event loop
SpecCmd ==
    /\ Init
    /\ [][CmdNext /\ UNCHANGED <<viewVars, ipcVars, paneVars, sockVars, treeVars, handVars>>]_vars
    /\ WF_vars(sendCommand_timeout
               /\ UNCHANGED <<viewVars, ipcVars, paneVars, sockVars, treeVars, handVars>>)

\* the refresh controller against a view that another client also talks to
RefreshNext ==
    \/ refresh_connect /\ UNCHANGED <<viewVars, paneVars, sockVars, treeVars, handVars>>
    \/ refresh_connectFailed
          /\ UNCHANGED <<viewVars, ipcVars, paneVars, sockVars, treeVars, handVars>>
    \/ refresh_data
          /\ UNCHANGED <<viewVars, ipcVars, paneVars, sockVars, treeVars, handVars>>
    \/ refresh_timeout
          /\ UNCHANGED <<viewVars, ipcVars, paneVars, sockVars, treeVars, handVars>>
    \/ clientConnect(Other)
          /\ UNCHANGED <<viewVars, paneVars, cmdVars, sockVars, treeVars, handVars>>
    \/ \E t \in {"p", "r"} :
          clientWrite(Other, t)
          /\ UNCHANGED <<viewVars, paneVars, cmdVars, sockVars, treeVars, handVars>>
    \/ \E c \in Clients, k \in 1..(4 * MaxWrites) :
          Running /\ serverData(c, k)
          /\ UNCHANGED <<paneVars, cmdVars, sockVars, treeVars, handVars>>
    \/ call.sock = "connecting" /\ keyQ
          /\ UNCHANGED <<ipcVars, paneVars, cmdVars, treeVars, handVars>>
SpecRefresh == Init /\ [][RefreshNext]_vars

\* the view under keys, change events, polling and a client that keeps its
\* connection over several messages, read line by line; the clock is followed
\* while a timer runs
StaleNext ==
    \/ watchEvent /\ UNCHANGED <<ipcVars, paneVars, cmdVars, sockVars, treeVars, handVars>>
    \/ \E i \in 1..MaxEvents :
          debounceFire(i) /\ UNCHANGED <<ipcVars, paneVars, cmdVars, sockVars, treeVars, handVars>>
    \/ timers # <<>> /\ Tick
          /\ UNCHANGED <<ipcVars, paneVars, cmdVars, sockVars, treeVars, handVars>>
    \/ pollTick /\ UNCHANGED <<ipcVars, paneVars, cmdVars, sockVars, treeVars, handVars>>
    \/ keyG /\ UNCHANGED <<ipcVars, paneVars, cmdVars, sockVars, treeVars, handVars>>
    \/ commitEffects /\ UNCHANGED <<paneVars, cmdVars, treeVars, handVars>>
    \/ clientConnect(Controller)
          /\ UNCHANGED <<viewVars, paneVars, cmdVars, sockVars, treeVars, handVars>>
    \/ \E t \in {"r", "s1", "s2"} :
          clientWrite(Controller, t)
          /\ UNCHANGED <<viewVars, paneVars, cmdVars, sockVars, treeVars, handVars>>
    \/ \E n \in 1..MaxWrites :
          serverData(Controller, 4 * n)
          /\ UNCHANGED <<paneVars, cmdVars, sockVars, treeVars, handVars>>
SpecStale == Init /\ [][StaleNext]_vars

\* the control server's interface, called in any order
ServerNext ==
    \/ callCreate /\ UNCHANGED <<viewVars, paneVars, cmdVars, treeVars, handVars>>
    \/ \E g \in 1..MaxGen : callClose(g) /\ UNCHANGED <<viewVars, paneVars, cmdVars, treeVars, handVars>>
SpecServer == Init /\ [][ServerNext]_vars

\* one build and its flattening, for every directory tree and status report
TreeNext ==
    \/ build_all /\ UNCHANGED <<viewVars, ipcVars, paneVars, cmdVars, sockVars, handVars>>
    \/ build_git /\ UNCHANGED <<viewVars, ipcVars, paneVars, cmdVars, sockVars, handVars>>
    \/ flatten /\ UNCHANGED <<viewVars, ipcVars, paneVars, cmdVars, sockVars, handVars>>
InitTree ==
    /\ PaneInit /\ ViewInit /\ IpcInit /\ CmdInit /\ SockInit /\ HandInit
    /\ world \in Worlds /\ TreeIdle
SpecTree == InitTree /\ [][TreeNext]_vars

\* the cursor under keys and rebuilds
CursorNext ==
    \/ (\E w \in CursorWorlds : rebuild(w))
          /\ UNCHANGED <<viewVars, ipcVars, paneVars, cmdVars, sockVars, handVars>>
    \/ (\E w \in CursorWorlds : toggleMode(w))
          /\ UNCHANGED <<viewVars, ipcVars, paneVars, cmdVars, sockVars, handVars>>
    \/ keyUp /\ UNCHANGED <<viewVars, ipcVars, paneVars, cmdVars, sockVars, handVars>>
    \/ keyDown /\ UNCHANGED <<viewVars, ipcVars, paneVars, cmdVars, sockVars, handVars>>
    \/ keyLeft /\ UNCHANGED <<viewVars, ipcVars, paneVars, cmdVars, sockVars, handVars>>
    \/ keyRight /\ UNCHANGED <<viewVars, ipcVars, paneVars, cmdVars, sockVars, handVars>>
SpecCursor == Init /\ [][CursorNext]_vars

----------------------------------------------------------------------------
(***************************************************************************)
(* Properties of the pane lifecycle                                        *)
(***************************************************************************)
Finished(r) == r.pc \in {"done", "crashed"}
CloseSteps == {"c_query", "c_probe", "c_kill"}
ReuseSteps == {"r_ctrlc", "r_wait", "r_send"}
IsAlive(paneId) == \E n \in alive : PaneIdOf(n) = paneId

\* C1: for each originating pane at most one browser pane spawned for it is
\* alive at any time, under interleaved invocations and failing commands.
C1_OnePanePerOrigin ==
    \A o \in Origins : Cardinality({n \in alive : owner[n] = o}) <= 1

\* C2: a Toggle that runs alone, with tmux detected and every subprocess
\* succeeding, ends in PaneActive without killing when it started in NoPane,
\* and ends in NoPane (pane killed, identity file deleted) without spawning
\* when it started in PaneActive.
C2_ToggleIsItsOwnInverse ==
    \A p \in Procs :
        LET r == proc[p] IN
        (r.pc = "done" /\ r.op = "toggle" /\ r.clean /\ detectTmux(r)) =>
            IF r.start = "NoPane"
            THEN /\ PaneActive(r.origin)
                 /\ r.spawned = 1 /\ r.kills = 0
            ELSE /\ ~PaneActive(r.origin)
                 /\ idFile[getPaneIdFile(PaneIdOf(r.origin))] = Null
                 /\ ~IsAlive(r.paneId)
                 /\ r.kills = 1 /\ r.spawned = 0

\* two Toggles in a row from the same pane: spawned, then killed again
C2_Witness ==
    \E p \in Procs :
        /\ proc[p].pc = "done" /\ proc[p].op = "toggle" /\ proc[p].clean
        /\ proc[p].start = "PaneActive" /\ proc[p].kills = 1
        /\ runs = 2 /\ nextPane = FirstBrowserPane + 1 /\ alive = {}

C4_ProbeBeforeKillOrReuse ==
    \A p \in Procs :
        LET r == proc[p] IN
        /\ (r.pc = "c_kill" \/ r.kills > 0) => r.paneId \in r.probed
        /\ (r.pc \in ReuseSteps \/ r.reused > 0) => r.paneId \in r.probed
        /\ (r.stale /\ r.pc = "s_query" /\ r.clean) => idFile[r.file] = Null
        /\ (r.stale /\ r.pc = "done" /\ r.clean /\ detectTmux(r)) =>
               /\ r.spawned = 1 /\ r.kills = 0
               /\ PaneActive(r.origin)

\* a Toggle met a record whose pane the user had closed, and spawned a new pane
C4_Witness ==
    \E p \in Procs :
        /\ proc[p].stale /\ proc[p].pc = "done" /\ proc[p].clean
        /\ proc[p].spawned = 1 /\ PaneActive(proc[p].origin)

C6_NoTmuxIsFatal ==
    \A p \in Procs :
        LET r == proc[p] IN
        (r.op = "toggle" /\ ~detectTmux(r) /\ Finished(r)) =>
            /\ r.exitCode # 0
            /\ r.reported = 1
            /\ r.spawned = 0 /\ r.wrote = 0


----------------------------------------------------------------------------
(***************************************************************************)
(* Properties of the control channel                                       *)
(***************************************************************************)
RECURSIVE Count(_, _)
Count(sq, x) ==
    IF sq = <<>> THEN 0
    ELSE (IF Head(sq) = x THEN 1 ELSE 0) + Count(Tail(sq), x)

\* the messages of the newline-terminated lines of a byte stream
Framed(stream) == Parsed(SubSeq(split(stream), 1, Len(split(stream)) - 1))

\* C7: every Ping the view was handed has produced exactly one Pong for the
\* client that sent it, whatever other clients and messages are around.
C7_OnePongPerPing ==
    \A c \in Clients :
        Count(log[c], "p") > 0 => Count(recv[c], "pong") = Count(log[c], "p")

\* C8: whenever the bytes read from a connection end with a newline, what the
\* connection has handed to onMessage is the sequence of messages of the
\* lines read so far, each once and in order, wherever the reads were cut.
C8_FramingByNewlinesOnly ==
    \A c \in Clients :
        (bytes[c] = <<>> \/ bytes[c][Len(bytes[c])] = "\n") =>
            log[c] = Framed(bytes[c])

\* C9: sendCommand always settles, and settles with null unless a well-formed
\* reply line arrived (connection failure, timeout, malformed reply).
C9_AlwaysResolvesNullOnFailure ==
    /\ [](call.sock = "failed" => call.result = "null")
    /\ [](call.result # "pending" /\ ~call.good => call.result = "null")
    /\ <>(call.result # "pending")

\* C10: a burst of change events less than 300 ms apart gives one rebuild, no
\* earlier than 300 ms after its last event; at most one timer is pending.
C10_DebounceOneRebuildPerBurst ==
    /\ Len(timers) <= 1
    /\ lastGap = -1 \/ lastGap >= DebounceTicks
    /\ debounced + cancelled + Len(timers) = bursts
    /\ \A i \in 1..Len(timers) : timers[i].due = lastEvent + DebounceTicks

\* three events and more in one burst, over more than one tick, one rebuild
C10_Witness ==
    /\ events >= 3 /\ bursts = 1 /\ cancelled = 0
    /\ debounced = 1 /\ timers = <<>>
    /\ lastGap = DebounceTicks /\ lastEvent > 0

----------------------------------------------------------------------------
(***************************************************************************)
(* Properties of process exit and of the socket file                       *)
(***************************************************************************)
\* C11: once the view process has exited, by the quit key, by a Close message
\* or by an interrupt signal, the watcher is closed, no debounce timer is
\* pending, no server instance listens and the socket file does not exist.
C11_ExitReleasesEverything ==
    ~Running =>
        /\ watching = NoDir
        /\ timers = <<>>
        /\ listening = {}
        /\ sockFile = NoFile

\* C12: every close() stops its instance and leaves no socket file; a second
\* close() right after the first changes nothing: nothing listens again and
\* no file comes back.
C12_CloseTwiceIsSafe ==
    [][\A g \in 1..MaxGen :
          closes'[g] = closes[g] + 1 =>
              /\ g \notin listening'
              /\ sockFile' = NoFile
              /\ (closes[g] >= 1 /\ sockFile = NoFile) =>
                     /\ listening' = listening
                     /\ gen' = gen]_vars

\* close() called twice in a row on the only instance
C12_Witness ==
    /\ gen = 1 /\ closes[1] = 2
    /\ listening = {} /\ sockFile = NoFile

----------------------------------------------------------------------------
(***************************************************************************)
(* Properties of the tree builder and of flattenTree                       *)
(***************************************************************************)
Built == stage \in {"built", "flat"}
BuiltAll == Built /\ world.mode = "all"
BuiltGit == Built /\ world.mode = "git"

\* the nodes of a forest in depth-first pre-order, each with the path of the
\* node it hangs under
RECURSIVE preorder(_, _)
preorder(nodes, parent) ==
    IF nodes = <<>> THEN <<>>
    ELSE <<[path |-> Head(nodes).path, name |-> Head(nodes).name,
            isDir |-> Head(nodes).isDir, gitStatus |-> Head(nodes).gitStatus,
            under |-> parent]>>
         \o preorder(Head(nodes).children, Head(nodes).path)
         \o preorder(Tail(nodes), parent)

Rows == preorder(build.forest, <<>>)

\* the sibling groups of a forest: the top level and every child list
RECURSIVE siblingGroups(_)
siblingGroups(nodes) ==
    {nodes} \cup UNION {siblingGroups(nodes[i].children) : i \in 1..Len(nodes)}

\* the same walk without a cap
Uncapped(w) == [w EXCEPT !.maxEntries = Cardinality(Universe) + 1]
FullRows == preorder(walkTree(Uncapped(world)).forest, <<>>)

\* C13: an all-files build emits at most maxEntries nodes over the whole
\* forest, and they are the first maxEntries nodes (all of them when there
\* are fewer) of the pre-order of the sorted, filtered walk without a cap.
C13_EntryCapIsGlobal ==
    BuiltAll =>
        /\ Len(Rows) <= world.maxEntries
        /\ Rows = SubSeq(FullRows, 1,
                         IF Len(FullRows) < world.maxEntries THEN Len(FullRows)
                         ELSE world.maxEntries)

\* the cap cuts the walk inside a subdirectory, with entries left over
C13_Witness ==
    /\ BuiltAll
    /\ Len(FullRows) > world.maxEntries
    /\ Len(Rows) = world.maxEntries
    /\ Len(Rows[Len(Rows)].path) >= 2
    /\ \E e \in world.entries : Len(e.path) = 1 /\ \A i \in 1..Len(Rows) : Rows[i].path # e.path

\* C14 as stated: an all-files build emits no node more than maxDepth path
\* segments below the root.
C14_NoNodeBelowMaxDepth ==
    BuiltAll => \A i \in 1..Len(Rows) : Len(Rows[i].path) <= world.maxDepth

\* C14: an all-files build emits no node more than maxDepth + 1 path segments
\* below the root: the directories read are those at depth 0 (the root) to
\* maxDepth, and their entries lie one segment deeper.
C14_NoNodeBelowMaxDepthPlusOne ==
    BuiltAll => \A i \in 1..Len(Rows) : Len(Rows[i].path) <= world.maxDepth + 1

\* default maxDepth: an entry 5 segments below the root is in the forest, the
\* one 6 segments below the root is not
C14_Witness ==
    /\ BuiltAll
    /\ world.maxDepth = DefaultMaxDepth
    /\ \E e \in world.entries : Len(e.path) = DefaultMaxDepth + 2
    /\ \E i \in 1..Len(Rows) : Len(Rows[i].path) = DefaultMaxDepth + 1

\* directories before files, names of one kind in the order of rank
InOrder(sibs, rank(_)) ==
    \A i, j \in 1..Len(sibs) :
        i < j =>
            /\ sibs[i].isDir \/ ~sibs[j].isDir
            /\ sibs[i].isDir = sibs[j].isDir =>
                   rank(sibs[i].name) <= rank(sibs[j].name)

\* C15 as stated: in every sibling sibs of a built forest, directories come
\* before files and names of one kind are in case-sensitive lexicographic
\* (code unit) order.
C15_SiblingsInCodeUnitOrder ==
    Built => \A sibs \in siblingGroups(build.forest) : InOrder(sibs, codeUnitRank)

\* C15: in every sibling sibs of a built forest, of either mode, directories
\* come before files and names of one kind are in the order of localeCompare.
C15_SiblingsInLocaleOrder ==
    Built => \A sibs \in siblingGroups(build.forest) : InOrder(sibs, localeRank)

\* a directory, then file a before file B
C15_Witness ==
    /\ Built
    /\ \E sibs \in siblingGroups(build.forest) :
           \E i \in 2..(Len(sibs) - 1) :
               /\ sibs[1].isDir
               /\ sibs[i].name = "a" /\ sibs[i + 1].name = "B"

\* C16: an all-files build with default options has no node with a segment
\* of its path in the default ignore set, whatever the root ignore file says.
C16_DefaultIgnoreNeverShown ==
    BuiltAll =>
        \A i \in 1..Len(Rows) :
            \A k \in 1..Len(Rows[i].path) : Rows[i].path[k] \notin DEFAULT_IGNORE

\* .git with contents at the top, a .git below d, an ignore file, and a
\* forest that shows the file next to the .git below d
C16_Witness ==
    /\ BuiltAll
    /\ world.ignoreFile # NoIgnoreFile
    /\ {Dir(<<".git">>), File(<<".git", "k">>), File(<<"d", ".git">>),
        File(<<"d", "B">>)} \subseteq world.entries
    /\ \E i \in 1..Len(Rows) : Rows[i].path = <<"d", "B">>

\* the same tree with every unreadable directory readable and empty
Readable(w) ==
    [w EXCEPT !.unreadable = {},
              !.entries = {e \in @ : \A u \in w.unreadable :
                                        ~(IsPrefix(u, e.path) /\ e.path # u)}]

\* C17: no build raises; an all-files build of a tree with an unreadable
\* directory is the build of the tree where that directory is empty (it is
\* shown without children, everything else is walked), and a git-diff build
\* whose status query fails is the empty forest.
C17_BuildsNeverRaise ==
    Built =>
        /\ ~build.raised
        /\ world.mode = "all" => build.forest = walkTree(Readable(world)).forest
        /\ (world.mode = "git" /\ ~world.gitOk) => build.forest = <<>>

\* d is not readable and has entries: it is shown, and so is file B after it
C17_Witness ==
    /\ BuiltAll
    /\ world.unreadable = {<<"d">>}
    /\ File(<<"d", "B">>) \in world.entries
    /\ \E i, j \in 1..Len(Rows) :
           /\ i < j
           /\ Rows[i].path = <<"d">> /\ Rows[j].path = <<"B">>
    /\ \A i \in 1..Len(Rows) : Rows[i].path # <<"d", "B">>

\* C18: in a git-diff build whose status query succeeds, the changed paths
\* whose first segment is not in the default ignore set have exactly one file
\* node each, with the status of the change, their directory prefixes have
\* exactly one directory node each, there are no other nodes and every node
\* hangs under the node of its parent prefix.
C18_OneNodePerChangedPath ==
    (BuiltGit /\ world.gitOk) =>
        LET kept == {c \in world.changes : Head(c.path) \notin DEFAULT_IGNORE}
            prefixes == UNION {{SubSeq(c.path, 1, k) : k \in 1..(Len(c.path) - 1)} :
                                 c \in kept}
            files == {i \in 1..Len(Rows) : ~Rows[i].isDir}
            dirs == {i \in 1..Len(Rows) : Rows[i].isDir}
        IN  /\ \A c \in kept :
                  Cardinality({i \in files : /\ Rows[i].path = c.path
                                             /\ Rows[i].gitStatus = c.status}) = 1
            /\ Cardinality(files) = Cardinality(kept)
            /\ \A p \in prefixes : Cardinality({i \in dirs : Rows[i].path = p}) = 1
            /\ Cardinality(dirs) = Cardinality(prefixes)
            /\ \A i \in 1..Len(Rows) : Rows[i].under = Parent(Rows[i].path)

ValidIndex(k) == k = -1 \/ (k >= 0 /\ k < Len(flat))

\* C19: every entry of the flattened forest has parentIndex and
\* firstChildIndex equal to -1 or to an index of the sequence, and the entry
\* at firstChildIndex has the entry itself as its parent.
C19_FlatIndicesLinkUp ==
    stage = "flat" =>
        \A i \in 1..Len(flat) :
            /\ ValidIndex(flat[i].parentIndex)
            /\ ValidIndex(flat[i].firstChildIndex)
            /\ flat[i].firstChildIndex >= 0 =>
                   flat[flat[i].firstChildIndex + 1].parentIndex = i - 1

\* a nested directory with children, followed by a leaf that ends the sequence
C19_Witness ==
    /\ stage = "flat"
    /\ \E i \in 1..Len(flat) :
           flat[i].parentIndex >= 0 /\ flat[i].firstChildIndex >= 0
    /\ flat[Len(flat)].firstChildIndex = -1

----------------------------------------------------------------------------
(***************************************************************************)
(* Properties of the spawn, of the launched view and of failing            *)
(* subprocesses                                                            *)
(***************************************************************************)
\* C22: the view running in a live pane that a Toggle spawned was launched
\* with a socket path and with its own pane id, so that it hosts a control
\* server a controller can reach.
C22_SpawnedViewHostsServer ==
    \A n \in alive :
        launch[n] # NoArgs =>
            /\ hostsServer(show(launch[n]))
            /\ show(launch[n]).paneId = PaneIdOf(n)

\* C23: the step on which split-window closes with status 0 and an id writes
\* exactly that id to the identity file the spawn resolved for the
\* originating pane, and neither select-pane has closed nor the invocation
\* completed by then; an invocation that created a pane completes only on the
\* step on which select-pane closes, with the new id as the spawn result; a
\* split-window that exits non-zero writes no identity file and the spawn
\* result is null.
C23_SpawnWritesThenRestoresFocus ==
    [][\A p \in Procs :
          /\ (proc[p].pc = "n_split" /\ proc'[p].pc = "n_select") =>
                 /\ proc'[p].created = PaneIdOf(nextPane)
                 /\ nextPane \in alive'
                 /\ idFile'[proc[p].file] = PaneIdOf(nextPane)
                 /\ \A f \in AllPaths \ {proc[p].file} : idFile'[f] = idFile[f]
                 /\ proc'[p].result = Null
          /\ (proc[p].pc # "done" /\ proc'[p].pc = "done"
                  /\ proc'[p].created # Null) =>
                 /\ proc[p].pc = "n_select"
                 /\ proc'[p].result = proc[p].created
                 /\ proc'[p].wrote = 1
          /\ (proc[p].pc = "n_split" /\ proc'[p].pc = "done") =>
                 /\ idFile' = idFile
                 /\ alive' = alive
                 /\ proc'[p].wrote = 0
                 /\ proc'[p].result = Null]_vars

\* a Toggle from pane %1 has completed a spawn: the identity file of %1 holds
\* the id of the new pane, which is the spawn result
C23_Witness ==
    \E p \in Procs :
        /\ proc[p].pc = "done" /\ proc[p].op = "toggle" /\ proc[p].origin = 1
        /\ proc[p].src = PaneIdOf(1)
        /\ proc[p].result = PaneIdOf(FirstBrowserPane)
        /\ idFile[getPaneIdFile(PaneIdOf(1))] = PaneIdOf(FirstBrowserPane)
        /\ FirstBrowserPane \in alive

\* C24: no controller invocation ends by raising, whatever the outcome of the
\* multiplexer subprocesses it ran (exit 0, exit non-zero, failure to start).
C24_SubprocessFailuresNeverRaise ==
    \A p \in Procs : proc[p].pc # "crashed"

----------------------------------------------------------------------------
(***************************************************************************)
(* Properties of the Ready message and of dropped lines                    *)
(***************************************************************************)
\* the controller messages among the segments of one read
Recognized(chunk) ==
    LET segs == split(chunk)
        ok == SelectSeq(segs, LAMBDA l : Len(l) = 3 /\ l[1] = "{" /\ l[3] = "}"
                                              /\ l[2] \in Tags)
    IN  [i \in 1..Len(ok) |-> ok[i][2]]

\* C25: a read changes the replies sent, the shown tree and the cwd as the
\* controller messages among its lines do, in their order, whatever lines that
\* are not JSON or carry no known type stand before, between or after them;
\* a read without any controller message sends no reply and leaves cwd,
\* tree, mode, the server instance and the connected clients as they were.
C25_BadLinesAreDropped ==
    [][\A c \in Clients :
          bytes'[c] # bytes[c] =>
              LET chunk == SubSeq(bytes'[c], Len(bytes[c]) + 1, Len(bytes'[c]))
                  st == dispatch(conn[c], Recognized(chunk),
                                 [recv |-> recv, shown |-> shown, cwd |-> cwd])
              IN  /\ recv' = st.recv /\ shown' = st.shown /\ cwd' = st.cwd
                  /\ viewMode' = viewMode /\ conn' = conn /\ gen' = gen
                  /\ Recognized(chunk) = <<>> =>
                         recv' = recv /\ shown' = shown /\ cwd' = cwd]_vars

\* one client wrote a line that is not JSON and a Ping after it, and got its
\* Pong; the other wrote a JSON line of an unknown type, which changed nothing
C25_Witness ==
    \E c, e \in Clients :
        /\ bytes[c] = Wire("z") \o Encode("p")
        /\ log[c] = <<"p">> /\ recv[c] = <<"pong">>
        /\ bytes[e] = Encode("o")
        /\ log[e] = <<"o">> /\ recv[e] = <<>>
        /\ cwd = "d1" /\ gen = 1

\* C21: every connection a controller client made to the view's control
\* server, and that has ended, had a Ready line delivered on it.
C21_ReadyIsDelivered ==
    \A c \in Clients :
        (conn[c] = 0 /\ bytes[c] # <<>>) => Count(recv[c], "ready") > 0

----------------------------------------------------------------------------
(***************************************************************************)
(* Properties of the timer of sendCommand                                  *)
(***************************************************************************)
\* C26: as long as the promise of a sendCommand call is unresolved, its
\* 3-second timer is armed, whatever bytes the peer has sent.
C26_TimerArmedWhilePending ==
    call.result = "pending" => call.timer

----------------------------------------------------------------------------
(***************************************************************************)
(* Properties of the socket file over the life of the view                 *)
(***************************************************************************)
\* C27: while the view runs, the socket file at the socket path is the one
\* the mounted server instance bound, and that instance listens: a file left
\* by an instance that died is replaced when the next one binds, and when the
\* view re-creates its server the older instance is closed before the newer
\* one binds and is never closed again afterwards.
C27_SocketFileOfLiveServer ==
    /\ [](Running => sockFile = {gen} /\ gen \in listening)
    /\ [][\A g \in 1..MaxGen : closes'[g] # closes[g] => g = gen]_vars
    /\ [][(Running /\ Running' /\ gen' # gen) =>
              /\ closes'[gen] = closes[gen] + 1
              /\ gen \notin listening']_vars

\* instance 1 died without its close() and left its file; instance 2 bound
\* over it in a new process and was then replaced by instance 3, which runs
C27_Witness ==
    /\ Running /\ gen = 3
    /\ closes[1] = 0 /\ closes[2] = 1 /\ closes[3] = 0
    /\ sockFile = {3} /\ listening = {3}

----------------------------------------------------------------------------
(***************************************************************************)
(* Properties of the handoff of the terminal                               *)
(***************************************************************************)
\* C28: a step taken while an external program has the terminal makes no
\* rebuild and no redraw and handles no key and no control message: the shown
\* tree, cwd, mode, watcher, timers, replies and server are as they were; and
\* a change event handled after the program has returned arms the debounce
\* timer, whose lapse rebuilds the tree.
C28_HandoffBlocksProcessing ==
    /\ [][handoff =>
             UNCHANGED <<cwd, viewMode, deps, shown, watching, timers,
                         lastEvent, events, bursts, debounced, cancelled,
                         lastGap, gen, genDeps, recv, exitBy, listening,
                         sockFile, closes>>]_vars
    /\ [][events' = events + 1 =>
             /\ ~handoff
             /\ Len(timers') = 1
             /\ timers'[1] = [due |-> now + DebounceTicks, dir |-> deps.cwd,
                              mode |-> deps.mode, ref |-> TRUE]]_vars
    /\ [][debounced' = debounced + 1 =>
             ~handoff /\ shown' = refreshTree(deps.cwd, shown'.mode)]_vars

\* an editor was opened while a debounce timer was running and returned after
\* its time had come: the timer then made its rebuild; one change event after
\* that was rebuilt for in its turn
C28_Witness ==
    /\ ~handoff
    /\ resumed.events = 1 /\ resumed.debounced = 0 /\ resumed.pending = 1
    /\ events = 2 /\ debounced = 2 /\ timers = <<>>
    /\ lastGap = DebounceTicks

----------------------------------------------------------------------------
(***************************************************************************)
(* Properties of the ignore test and of node paths                         *)
(***************************************************************************)
\* C29: for every entry of the walked tree, shouldIgnore is true exactly when
\* the name is in the static set, or a pattern of the ignore file matches the
\* path below the root, or the bare name, or (for a directory) the name with
\* a trailing separator; and no node of the forest has a path below the root
\* that a pattern matches.
C29_IgnoreTestAsDescribed ==
    BuiltAll =>
        LET globs == parseGitignore(world)
            described(e) ==
                \/ Last(e.path) \in DEFAULT_IGNORE
                \/ \E i \in 1..Len(globs) :
                      \/ Glob_match(globs[i], e.path, FALSE)
                      \/ Glob_match(globs[i], <<Last(e.path)>>, FALSE)
                      \/ e.isDir /\ Glob_match(globs[i], <<Last(e.path)>>, TRUE)
        IN  /\ \A e \in world.entries :
                  shouldIgnore(Last(e.path), e.path, e.isDir, DEFAULT_IGNORE,
                               globs) <=> described(e)
            /\ \A i \in 1..Len(Rows) :
                  \A k \in 1..Len(globs) :
                      ~Glob_match(globs[k], Rows[i].path, FALSE)

\* C30: no two nodes of a built forest have the same path, in either mode.
C30_NodePathsAreUnique ==
    Built =>
        \A i, j \in 1..Len(Rows) : i # j => Rows[i].path # Rows[j].path

----------------------------------------------------------------------------
(***************************************************************************)
(* Properties of the flat sequence and of the cursor                       *)
(***************************************************************************)
\* the nesting level of every node of a forest, in depth-first pre-order
RECURSIVE levels(_, _)
levels(nodes, level) ==
    IF nodes = <<>> THEN <<>>
    ELSE <<level>> \o levels(Head(nodes).children, level + 1)
                   \o levels(Tail(nodes), level)

\* C31: the flat sequence has one entry per node of the forest, in
\* depth-first pre-order, each with the nesting level of its node as depth
\* and, as parentIndex, -1 at the top level and else the index of the entry
\* of the node it hangs under (the nearest entry before it that is one level
\* up); flattening the forest again gives the same sequence.
C31_FlattenIsPreorder ==
    stage = "flat" =>
        LET lv == levels(build.forest, 0) IN
        /\ Len(flat) = Len(Rows)
        /\ \A i \in 1..Len(flat) :
              /\ flat[i].path = Rows[i].path
              /\ flat[i].isDir = Rows[i].isDir
              /\ flat[i].depth = lv[i]
              /\ IF lv[i] = 0 THEN flat[i].parentIndex = -1
                 ELSE LET up == {j \in 1..(i - 1) : lv[j] = lv[i] - 1}
                          near == CHOOSE j \in up : \A k \in up : k <= j
                      IN  /\ up # {}
                          /\ flat[i].parentIndex = near - 1
                          /\ Rows[near].path = Rows[i].under
                          /\ Rows[near].isDir
        /\ flat = flattenTree(build.forest)

\* a forest three levels deep whose last node is back at the top level
C31_Witness ==
    /\ stage = "flat"
    /\ Len(flat) >= 4
    /\ \E i \in 1..Len(flat) : flat[i].depth = 2
    /\ flat[Len(flat)].depth = 0 /\ flat[Len(flat)].parentIndex = -1
    /\ flat[Len(flat) - 1].depth > 0

\* C32: the cursor is an index of the flat sequence, 0 when the sequence is
\* empty, and never negative.
C32_CursorInRange ==
    cursor >= 0 /\ cursor <= Max(0, Len(flat) - 1)

----------------------------------------------------------------------------
(***************************************************************************)
(* Properties of the refresh command                                       *)
(***************************************************************************)
\* C33: a refresh delivered to the live view makes one rebuild there and the
\* controller reports success: it exits with status 1 only when the view was
\* not handed the refresh message.
C33_RefreshReportsDelivery ==
    /\ Count(log[Controller], "r") <= 1
    /\ ExitStatus = 1 => Count(log[Controller], "r") = 0



----------------------------------------------------------------------------
(***************************************************************************)
(* Properties of the displayed forest                                      *)
(***************************************************************************)
\* nothing is left to run: no timer, no render, no byte of a client unread
Quiescent ==
    /\ timers = <<>>
    /\ ~RenderPending
    /\ \A c \in Clients : sent[c] = <<>>

\* C34: once no key press, timer, change event or control message is pending,
\* the displayed forest is the one built from the current root in the view
\* mode shown: no rebuild with a stale root or mode is the last one applied.
C34_QuiescentViewIsCurrent ==
    Quiescent => shown = [cwd |-> cwd, mode |-> viewMode]


============================================================================
